---- MODULE Spec2Model ----
(***************************************************************************)
(* Generation task orchestration and credit-ledger reconciliation of the   *)
(* AI Trends backend (FastAPI + SQLAlchemy): the payment handlers of       *)
(* app/routes/payments.py, the referral bookkeeping of app/routes/auth.py  *)
(* and the generation handlers of app/routes/generate.py with the result   *)
(* extractors of app/services/kie.py.                                      *)
(*                                                                         *)
(* Money is counted in hundredths of a credit (the columns are             *)
(* Numeric(10, 2)).  A request handler that awaits between its reads and   *)
(* its commit is split at those awaits, one action per step, so that       *)
(* concurrent requests interleave as the event loop lets them.  A session  *)
(* reads committed rows; what it assigns becomes visible to other          *)
(* sessions when it commits, and is dropped when it rolls back or closes.  *)
(***************************************************************************)
EXTENDS Integers, Sequences, FiniteSets, TLC

VARIABLES
    users,        \* tgids that have a row in table users
    balance,      \* users.balance, per tgid, in hundredths of a credit
    referred_by,  \* the referrer recorded for a tgid (NoTgid: none)
    payments,     \* table payments: a sequence of rows, the id is the index
    gateway,      \* the payment gateway's own status of each payment object
    cfg,          \* process configuration (environment), fixed at start
    req,          \* the in-flight payment requests, one record per slot
    credited,     \* per payment: committed credits of its owner's balance
    bonused,      \* per payment: committed referral bonuses
    notified,     \* per payment: outbound referral notifications posted
    stage,        \* per payment: 1 once a webhook for it has ended with the gateway holding it as succeeded
    invited,      \* per tgid: the first valid referrer presented to get_me for it
    generations,  \* table generations: a sequence of rows, the id is the index
    last,         \* the outcome of the last request that ended
    call          \* a call of a pure function: its name, argument and result

vars == <<users, balance, referred_by, payments, gateway, cfg, req, credited,
          bonused, notified, stage, invited, generations, last, call>>

payVars == <<users, balance, referred_by, payments, gateway, req, credited,
             bonused, notified, stage, invited>>

(***************************************************************************)
(* Bounds of the model.                                                    *)
(***************************************************************************)
MaxUsers == 2
MaxPayments == 2
MaxReq == 2
MaxGens == 1
MaxReferrer == 1

Tgids == 1..MaxUsers
Slots == 1..MaxReq
PayIds == 1..MaxPayments
NoTgid == 0
NoneStr == "None"

(***************************************************************************)
(* Declarations the handlers rely on.  Reading an attribute a class does   *)
(* not declare raises AttributeError; passing a keyword a function does    *)
(* not declare raises TypeError.                                           *)
(***************************************************************************)
UserColumns == {"id", "tgid", "balance", "created_at"}

SettingsFields ==
    {"app_name", "database_url", "bot_token", "jwt_secret", "jwt_expires_seconds",
     "kie_api_key", "kie_api_base", "kie_file_upload_base", "kie_enable_fallback",
     "kie_callback_url", "cors_origins", "yookassa_shop_id", "yookassa_secret_key",
     "frontend_url", "bot_username", "direct_link_name", "n8n_webhook_urls"}

BuildPayloadParams ==
    {"model", "prompt", "aspect_ratio", "resolution", "output_format", "quality",
     "mode", "image_urls"}

AllDeclared(cls, name) == TRUE

HasAttr(cls, name) ==
    CASE cls = "User" -> name \in UserColumns
      [] cls = "Settings" -> name \in SettingsFields
      [] OTHER -> FALSE

(***************************************************************************)
(* Top-up plans, in hundredths: tokens credited and amount charged.        *)
(***************************************************************************)
BALANCE_PLANS ==
    [base |-> [tokens |-> 10000, amount |-> 10000],
     neuro |-> [tokens |-> 52500, amount |-> 49900],
     vip |-> [tokens |-> 115000, amount |-> 99900],
     top |-> [tokens |-> 240000, amount |-> 199900],
     premium |-> [tokens |-> 650000, amount |-> 499900]]

PlanCodes == DOMAIN BALANCE_PLANS

\* float(payment.tokens) * 0.1, stored in a Numeric(10, 2) column
ReferralBonus(tokens) == tokens \div 10

\* the plan codes requests are drawn from: a plan and an unknown code
PlanInputs == {"base", "gold"}

(***************************************************************************)
(* Request slots of the payment handlers.                                  *)
(***************************************************************************)
Idle ==
    [op |-> "idle", pc |-> "idle", caller |-> NoTgid, pid |-> 0,
     seen |-> "", pstatus |-> "", after |-> FALSE, inv |-> NoTgid,
     uload |-> FALSE, ubal |-> 0, ref |-> NoTgid, rload |-> FALSE, rbal |-> 0,
     bonus |-> 0, nfail |-> FALSE, resp |-> "", code |-> 0]

\* the outcome of a request: what it was, what it answered, what it did
NoLast ==
    [op |-> "none", caller |-> NoTgid, code |-> 0, resp |-> "", pid |-> 0,
     after |-> FALSE, calls |-> {},
     required |-> 0, available |-> 0, gensBefore |-> 0, model |-> "",
     gid |-> 0, url |-> NoneStr, failed |-> 0, asked |-> 0, rows |-> {}]

\* no function has been called
NoCall == [fn |-> "none", done |-> FALSE, arg |-> <<>>, out |-> <<>>]

Outcome(r) ==
    [NoLast EXCEPT !.op = r.op, !.code = r.code, !.resp = r.resp, !.pid = r.pid,
                   !.after = r.after]

\* get_current_user: the caller's row is created on first sight
get_current_user(u) == users \cup {u}

PaymentByYooId(yid) ==
    IF yid \in 1..Len(payments) THEN yid ELSE 0

PaymentByIdAndTgid(pid, u) ==
    IF pid \in 1..Len(payments) /\ payments[pid].tgid = u THEN pid ELSE 0

Tokens(pid) == payments[pid].tokens
Owner(pid) == payments[pid].tgid

Finish(r, resp, code) == [r EXCEPT !.pc = "done", !.resp = resp, !.code = code]

Free(s) == req[s].pc = "idle"

\* requests are anonymous: a new one takes the first free slot
FirstFree(s) == Free(s) /\ \A t \in Slots : t < s => ~Free(t)

\* a request that has ended leaves its slot and its outcome in last
Settle(s, nr) == IF nr.pc = "done" THEN [req EXCEPT ![s] = Idle] ELSE [req EXCEPT ![s] = nr]

Answer(nr) == IF nr.pc = "done" THEN Outcome(nr) ELSE last

\* a webhook for a payment the gateway holds as succeeded has ended
StageAfterWebhook(pid) ==
    IF pid # 0 /\ gateway[pid] = "succeeded" /\ stage[pid] = 0
    THEN [stage EXCEPT ![pid] = 1] ELSE stage

\* what a request about payment p notes when it begins: whether such a
\* webhook has ended before, and the referrer its owner was invited by
Began(r, p) ==
    IF p = 0 THEN r
    ELSE [r EXCEPT !.after = stage[p] = 1, !.inv = invited[payments[p].tgid]]

(***************************************************************************)
(* The gateway (YooKassa): the payer pays or abandons the payment object.  *)
(***************************************************************************)
GatewayCapture(k) ==
    /\ gateway[k] = "pending"
    /\ gateway' = [gateway EXCEPT ![k] = "succeeded"]
    /\ UNCHANGED <<users, balance, referred_by, payments, cfg, req, credited,
                   bonused, notified, stage, invited, generations, last, call>>

GatewayCancel(k) ==
    /\ gateway[k] = "pending"
    /\ gateway' = [gateway EXCEPT ![k] = "canceled"]
    /\ UNCHANGED <<users, balance, referred_by, payments, cfg, req, credited,
                   bonused, notified, stage, invited, generations, last, call>>

(***************************************************************************)
(* POST /payments/create.                                                  *)
(***************************************************************************)
create_payment_code(plan, bodyOk, gwOk) ==
    IF ~bodyOk THEN 400
    ELSE IF plan = "" THEN 400
    ELSE IF ~cfg.yoo_import THEN 503
    ELSE IF ~cfg.yoo_creds THEN 503
    ELSE IF plan \notin PlanCodes THEN 404
    ELSE IF ~gwOk THEN 400
    ELSE 200

NewPaymentSucceeded(u, k, plan) ==
    [tgid |-> u, yookassa_payment_id |-> k,
     amount |-> BALANCE_PLANS[plan].amount, tokens |-> BALANCE_PLANS[plan].tokens,
     status |-> "succeeded", plan_code |-> plan]

\* Payment(tgid=uid, yookassa_payment_id=yoo_payment.id, ..., status="pending")
NewPayment(u, k, plan) ==
    [tgid |-> u, yookassa_payment_id |-> k,
     amount |-> BALANCE_PLANS[plan].amount, tokens |-> BALANCE_PLANS[plan].tokens,
     status |-> "pending", plan_code |-> plan]

create_payment(u, plan, bodyOk, gwOk) ==
    LET code == create_payment_code(plan, bodyOk, gwOk)
        k == Len(payments) + 1
    IN  /\ code = 200 => k <= MaxPayments
        /\ users' = get_current_user(u)
        /\ IF code = 200
           THEN /\ payments' = Append(payments, NewPayment(u, k, plan))
                /\ gateway' = [gateway EXCEPT ![k] = "pending"]
           ELSE UNCHANGED <<payments, gateway>>
        /\ UNCHANGED <<balance, referred_by, cfg, req, credited, bonused,
                       notified, stage, invited, generations, last, call>>

(***************************************************************************)
(* GET /auth/me?r_tgid=r (r is the referrer id left after start_param      *)
(* has been merged in; NoTgid: none given).                                *)
(***************************************************************************)
ValidReferrer(u, r) == r # NoTgid /\ r # u /\ r \in get_current_user(u)

SetsAnyReferrer(u, r) == r # NoTgid

get_me_sets_referrer(u, r) ==
    /\ HasAttr("User", "referred_by")
    /\ referred_by[u] = NoTgid
    /\ ValidReferrer(u, r)

get_me_code(u, r) ==
    IF ~HasAttr("User", "referred_by") THEN 500
    ELSE IF ~HasAttr("User", "email") THEN 500
    ELSE 200

get_me(u, r) ==
    /\ users' = get_current_user(u)
    /\ referred_by' = IF get_me_sets_referrer(u, r)
                      THEN [referred_by EXCEPT ![u] = r] ELSE referred_by
    /\ invited' = IF invited[u] = NoTgid /\ ValidReferrer(u, r)
                  THEN [invited EXCEPT ![u] = r] ELSE invited
    /\ UNCHANGED <<balance, payments, gateway, cfg, req, credited, bonused,
                   notified, stage, generations, last, call>>

(***************************************************************************)
(* session.commit(): the session's assignments are written, each column    *)
(* with the value the session computed for it.                             *)
(***************************************************************************)
CommitBalance(r, o) ==
    [u \in DOMAIN balance |->
        IF r.rload /\ u = r.ref THEN r.rbal
        ELSE IF r.uload /\ u = o THEN r.ubal
        ELSE balance[u]]

CommitStatus(r) == [payments EXCEPT ![r.pid].status = r.pstatus]

Flushed(r, o) == CommitBalance(r, o)

\* a request that ends without commit (session.rollback() at line 244, the
\* session closed after the except of line 317): the session's assignments
\* are discarded
RolledBack(r, o) == balance

(***************************************************************************)
(* POST /payments/webhook.  yookassa_webhook: the body is read, the payment  *)
(* row selected by the gateway id and its status checked (lines 177-203).  *)
(* yookassa_webhook_resume: the handler continues after an await.                    *)
(***************************************************************************)
WebhookEvents == {"payment.succeeded", "payment.canceled"}

\* the request up to its first await after the status check
WebhookRequest(bodyOk, event, yid) ==
    LET p == PaymentByYooId(yid)
        r == Began([Idle EXCEPT !.op = "webhook", !.pid = p], p)
        r0 == [Idle EXCEPT !.op = "webhook"]
    IN  IF ~bodyOk THEN Finish(r0, "error", 200)
        ELSE IF event # "payment.succeeded" THEN Finish(r0, "ignored", 200)
        ELSE IF yid = 0 THEN Finish(r, "error", 200)
        ELSE IF p = 0 THEN Finish(r, "error", 200)
        ELSE IF payments[p].status = "succeeded"
             THEN Finish([r EXCEPT !.seen = "succeeded"], "already_processed", 200)
        ELSE [r EXCEPT !.seen = payments[p].status, !.pstatus = "succeeded",
                       !.pc = "w_select_user"]

yookassa_webhook(s, bodyOk, event, yid) ==
    LET nr == WebhookRequest(bodyOk, event, yid)
    IN  /\ FirstFree(s)
        /\ req' = Settle(s, nr)
        /\ last' = Answer(nr)
        /\ stage' = IF nr.pc = "done" THEN StageAfterWebhook(nr.pid) ELSE stage
        /\ UNCHANGED <<users, balance, referred_by, payments, gateway, cfg, credited,
                       bonused, notified, invited, generations, call>>

\* lines 225-240: settings.ref_webhook_url is read outside the inner try;
\* an AttributeError is caught at line 243: rollback, {"status": "error"}
WebhookAfterReferral(r) ==
    IF ~HasAttr("Settings", "ref_webhook_url") THEN Finish(r, "error", 200)
    ELSE IF cfg.ref_webhook_url THEN [r EXCEPT !.pc = "w_notify"]
    ELSE [r EXCEPT !.pc = "w_commit"]

CreditsWithoutReferral(r) ==
    [r EXCEPT !.uload = TRUE, !.ubal = balance[Owner(r.pid)] + Tokens(r.pid),
              !.pc = "w_commit"]

\* lines 206-217: select the owner, credit it in the session, read
\* referred_by; an AttributeError is caught at line 243
WebhookSelectUser(r) ==
    LET o == Owner(r.pid)
        r1 == [r EXCEPT !.uload = TRUE, !.ubal = balance[o] + Tokens(r.pid)]
    IN  IF o \notin users THEN [r EXCEPT !.pc = "w_commit"]
        ELSE IF ~HasAttr("User", "referred_by") THEN Finish(r1, "error", 200)
        ELSE IF referred_by[o] # NoTgid
             THEN [r1 EXCEPT !.ref = referred_by[o],
                             !.bonus = ReferralBonus(Tokens(r.pid)),
                             !.pc = "w_select_referrer"]
        ELSE WebhookAfterReferral(r1)

\* lines 218-222: select the referrer and credit the bonus in the session
WebhookSelectReferrer(r) ==
    WebhookAfterReferral(
        IF r.ref \in users
        THEN [r EXCEPT !.rload = TRUE, !.rbal = balance[r.ref] + r.bonus]
        ELSE r)

\* lines 226-240: the post is made; an exception is logged and dropped
WebhookNotify(r, up) == [r EXCEPT !.nfail = ~up, !.pc = "w_commit"]

WebhookStep(r, up) ==
    CASE r.pc = "w_select_user" -> WebhookSelectUser(r)
      [] r.pc = "w_select_referrer" -> WebhookSelectReferrer(r)
      [] r.pc = "w_notify" -> WebhookNotify(r, up)
      [] r.pc = "w_commit" -> Finish(r, "ok", 200)

yookassa_webhook_resume(s, up) ==
    LET r == req[s]
        nr == WebhookStep(r, up)
        commit == r.pc = "w_commit"
    IN  /\ r.op = "webhook" /\ ~Free(s)
        /\ IF r.pc = "w_notify" THEN up => cfg.ref_up ELSE up
        /\ req' = Settle(s, nr)
        /\ last' = Answer(nr)
        /\ payments' = IF commit THEN CommitStatus(r) ELSE payments
        /\ balance' = IF commit THEN CommitBalance(r, Owner(r.pid))
                      ELSE IF nr.pc = "done" THEN RolledBack(nr, Owner(r.pid))
                      ELSE balance
        /\ credited' = IF commit /\ r.uload
                       THEN [credited EXCEPT ![r.pid] = @ + 1] ELSE credited
        /\ bonused' = IF commit /\ r.rload
                      THEN [bonused EXCEPT ![r.pid] = @ + 1] ELSE bonused
        /\ notified' = IF r.pc = "w_notify"
                       THEN [notified EXCEPT ![r.pid] = @ + 1] ELSE notified
        /\ stage' = IF nr.pc = "done" THEN StageAfterWebhook(r.pid) ELSE stage
        /\ UNCHANGED <<users, referred_by, gateway, cfg, invited, generations, call>>

(***************************************************************************)
(* GET /payments/status/{payment_id}.  get_current_user has loaded the     *)
(* caller's User row into the request's session; the later select of the   *)
(* same row (line 280) returns that object with the attributes it was      *)
(* loaded with.                                                            *)
(***************************************************************************)
\* the request up to its first await after the row is found (lines 260-273)
StatusRequest(u, pidIn, uuidOk) ==
    LET p == PaymentByIdAndTgid(pidIn, u)
        bal0 == IF u \in users THEN balance[u] ELSE 0
        r == [Idle EXCEPT !.op = "status", !.caller = u, !.ubal = bal0,
                          !.ref = referred_by[u]]
        rp == Began([r EXCEPT !.pid = p, !.seen = payments[p].status,
                              !.pstatus = payments[p].status], p)
    IN  IF ~uuidOk THEN Finish(r, "", 400)
        ELSE IF p = 0 THEN Finish(r, "", 404)
        ELSE IF payments[p].status = "pending" /\ cfg.yoo_import
             THEN [rp EXCEPT !.pc = "s_find_one"]
        ELSE Finish(rp, rp.pstatus, 200)

get_payment_status(s, u, pidIn, uuidOk) ==
    LET nr == StatusRequest(u, pidIn, uuidOk)
    IN  /\ FirstFree(s)
        /\ users' = get_current_user(u)
        /\ req' = Settle(s, nr)
        /\ last' = Answer(nr)
        /\ UNCHANGED <<balance, referred_by, payments, gateway, cfg, credited,
                       bonused, notified, stage, invited, generations, call>>

\* lines 274-278 and 317-326: the gateway is asked; any exception is dropped
\* and the handler answers with payment.status as the session holds it
StatusFindOne(r, gwOk) ==
    IF ~gwOk THEN Finish(r, r.pstatus, 200)
    ELSE IF gateway[r.pid] = "succeeded" /\ r.pstatus # "succeeded"
         THEN [r EXCEPT !.pstatus = "succeeded", !.pc = "s_select_user"]
    ELSE Finish(r, r.pstatus, 200)

\* lines 299-314: settings.ref_webhook_url is read outside the inner try;
\* an AttributeError is dropped at line 317 with nothing committed
StatusAfterReferral(r) ==
    IF ~HasAttr("Settings", "ref_webhook_url") THEN Finish(r, r.pstatus, 200)
    ELSE IF cfg.ref_webhook_url THEN [r EXCEPT !.pc = "s_notify"]
    ELSE [r EXCEPT !.pc = "s_commit"]

\* lines 280-291: the owner is the caller; an AttributeError is dropped at
\* line 317 with nothing committed, and the session is closed
StatusSelectUser(r) ==
    LET r1 == [r EXCEPT !.uload = TRUE, !.ubal = r.ubal + Tokens(r.pid)]
    IN  IF ~HasAttr("User", "referred_by") THEN Finish(r1, r1.pstatus, 200)
        ELSE IF r.ref # NoTgid
             THEN [r1 EXCEPT !.bonus = ReferralBonus(Tokens(r.pid)),
                             !.pc = "s_select_referrer"]
        ELSE StatusAfterReferral(r1)

\* lines 292-296
StatusSelectReferrer(r) ==
    StatusAfterReferral(
        IF r.ref \in users
        THEN [r EXCEPT !.rload = TRUE, !.rbal = balance[r.ref] + r.bonus]
        ELSE r)

\* lines 300-314
StatusNotify(r, up) == [r EXCEPT !.nfail = ~up, !.pc = "s_commit"]

StatusStep(r, gwOk, up) ==
    CASE r.pc = "s_find_one" -> StatusFindOne(r, gwOk)
      [] r.pc = "s_select_user" -> StatusSelectUser(r)
      [] r.pc = "s_select_referrer" -> StatusSelectReferrer(r)
      [] r.pc = "s_notify" -> StatusNotify(r, up)
      [] r.pc = "s_commit" -> Finish(r, r.pstatus, 200)

get_payment_status_resume(s, gwOk, up) ==
    LET r == req[s]
        nr == StatusStep(r, gwOk, up)
        commit == r.pc = "s_commit"
    IN  /\ r.op = "status" /\ ~Free(s)
        /\ IF r.pc = "s_find_one" THEN gwOk => cfg.yoo_creds ELSE gwOk
        /\ IF r.pc = "s_notify" THEN up => cfg.ref_up ELSE up
        /\ req' = Settle(s, nr)
        /\ last' = Answer(nr)
        /\ payments' = IF commit THEN CommitStatus(r) ELSE payments
        /\ balance' = IF commit THEN CommitBalance(r, Owner(r.pid))
                      ELSE IF nr.pc = "done" THEN RolledBack(nr, Owner(r.pid))
                      ELSE balance
        /\ credited' = IF commit /\ r.uload
                       THEN [credited EXCEPT ![r.pid] = @ + 1] ELSE credited
        /\ bonused' = IF commit /\ r.rload
                      THEN [bonused EXCEPT ![r.pid] = @ + 1] ELSE bonused
        /\ notified' = IF r.pc = "s_notify"
                       THEN [notified EXCEPT ![r.pid] = @ + 1] ELSE notified
        /\ UNCHANGED <<users, referred_by, gateway, cfg, stage, invited, generations, call>>

(***************************************************************************)
(* The payment ledger on its own.                                          *)
(***************************************************************************)
Cfg(imp, creds, ref, up, n) ==
    [yoo_import |-> imp, yoo_creds |-> creds, ref_webhook_url |-> ref, ref_up |-> up,
     n8n |-> n]

\* the gateway SDK missing, its credentials missing, and both present with
\* the referral notification address unset, set and reachable, set and down
PayCfgs ==
    {Cfg(FALSE, FALSE, FALSE, FALSE, 0), Cfg(TRUE, FALSE, FALSE, FALSE, 0),
     Cfg(TRUE, TRUE, FALSE, FALSE, 0), Cfg(TRUE, TRUE, TRUE, TRUE, 0),
     Cfg(TRUE, TRUE, TRUE, FALSE, 0)}

PayInit ==
    /\ users = {}
    /\ balance = [u \in Tgids |-> 0]
    /\ referred_by = [u \in Tgids |-> NoTgid]
    /\ payments = <<>>
    /\ gateway = [k \in PayIds |-> "none"]
    /\ cfg \in PayCfgs
    /\ req = [s \in Slots |-> Idle]
    /\ credited = [k \in PayIds |-> 0]
    /\ bonused = [k \in PayIds |-> 0]
    /\ notified = [k \in PayIds |-> 0]
    /\ stage = [k \in PayIds |-> 0]
    /\ invited = [u \in Tgids |-> NoTgid]
    /\ generations = <<>>
    /\ last = NoLast
    /\ call = NoCall

PayNext ==
    \/ \E k \in PayIds : GatewayCapture(k)
    \/ \E k \in PayIds : GatewayCancel(k)
    \/ \E u \in Tgids, plan \in PlanInputs \cup {""}, bodyOk \in BOOLEAN, gwOk \in BOOLEAN :
           create_payment(u, plan, bodyOk, gwOk)
    \/ \E u \in Tgids, r \in 0..MaxReferrer : get_me(u, r)
    \/ \E s \in Slots, bodyOk \in BOOLEAN, event \in WebhookEvents, yid \in 0..MaxPayments :
           yookassa_webhook(s, bodyOk, event, yid)
    \/ \E s \in Slots, up \in BOOLEAN : yookassa_webhook_resume(s, up)
    \/ \E s \in Slots, u \in Tgids, pidIn \in PayIds, uuidOk \in BOOLEAN :
           get_payment_status(s, u, pidIn, uuidOk)
    \/ \E s \in Slots, gwOk \in BOOLEAN, up \in BOOLEAN : get_payment_status_resume(s, gwOk, up)

SpecPay == PayInit /\ [][PayNext]_vars

(***************************************************************************)
(* Properties of the payment ledger.                                       *)
(***************************************************************************)
Rows == 1..Len(payments)

\* the request in slot s is a webhook for p that read the row as pending
WebhookOnPending(s, p) ==
    req[s].op = "webhook" /\ req[s].pid = p /\ req[s].seen = "pending"

\* the request in slot s is a status check for p that read the row as
\* pending and was told by the gateway that p has succeeded
StatusOnPending(s, p) ==
    /\ req[s].op = "status" /\ req[s].pid = p /\ req[s].seen = "pending"
    /\ req[s].pc # "s_find_one"

\* the request in slot s ends in this step
Ends(s) == req[s].op # "idle" /\ req'[s].op = "idle"

\* C1: under every interleaving of a webhook delivery and a status check
\* for the same pending payment that the gateway holds as succeeded, the
\* owner's balance is credited for the payment at most once.
C1_CreditedAtMostOnce == \A p \in PayIds : credited[p] <= 1

\* both entry points are in flight for one payment the gateway holds as
\* succeeded, and both have observed it pending
C1_BothObservedPending ==
    \E p \in Rows : \E s \in Slots, t \in Slots :
        gateway[p] = "succeeded" /\ WebhookOnPending(s, p) /\ StatusOnPending(t, p)

\* C2: a webhook for a payment, delivered after an earlier webhook for it
\* has ended, finds the owner credited exactly once and answers
\* already_processed.
C2_SecondWebhookAlreadyProcessed ==
    \A p \in Rows :
        (last.op = "webhook" /\ last.pid = p /\ last.after)
            => (credited[p] = 1 /\ last.resp = "already_processed")

\* C3: a status check for a payment of plan "base", begun after a webhook
\* for it has ended, ends with the payment succeeded and reported so, the
\* owner credited once with 100 credits, and one referral notification
\* posted where the notification address is set.
C3_WebhookThenStatus ==
    \A p \in Rows :
        (last.op = "status" /\ last.pid = p /\ last.after /\ payments[p].plan_code = "base")
            => /\ payments[p].status = "succeeded" /\ last.resp = "succeeded"
               /\ Tokens(p) = 10000 /\ credited[p] = 1 /\ balance[Owner(p)] >= 10000
               /\ notified[p] = IF cfg.ref_webhook_url THEN 1 ELSE 0

\* C4: when a reconciliation of a pending payment of T tokens ends, the
\* referrer its owner was invited by has T/10 more than before; with no
\* referrer, no balance but the owner's has changed.
C4_ReferrerGetsTenth ==
    [][\A s \in Slots : \A p \in Rows :
          (Ends(s) /\ (WebhookOnPending(s, p) \/ StatusOnPending(s, p))
                   /\ payments[p].status = "pending")
              => IF req[s].inv # NoTgid
                 THEN balance'[req[s].inv] = balance[req[s].inv] + ReferralBonus(Tokens(p))
                 ELSE \A u \in Tgids \ {Owner(p)} : balance'[u] = balance[u]]_vars

\* C5: with the referral notification address set and out of reach, a
\* webhook for a payment the gateway holds as succeeded still leaves the
\* payment succeeded and its owner credited, and answers without an error;
\* a status check that reports succeeded has left them so as well.
C5_NotifyFailureKeepsCredit ==
    (cfg.ref_webhook_url /\ ~cfg.ref_up) =>
        \A p \in Rows :
            /\ stage[p] = 1 => (payments[p].status = "succeeded" /\ credited[p] >= 1)
            /\ (last.op = "webhook" /\ last.pid = p) => last.resp # "error"
            /\ (last.op = "status" /\ last.pid = p /\ last.resp = "succeeded")
                   => (payments[p].status = "succeeded" /\ credited[p] >= 1)

(***************************************************************************)
(* Pricing tables of app/routes/generate.py, in hundredths of a credit.    *)
(***************************************************************************)
MODEL_PRICES(model) ==
    CASE model = "google/nano-banana-edit" -> 500
      [] model = "google/nano-banana" -> 500
      [] model = "nano-banana-pro" -> 1000
      [] model = "seedream/4.5-text-to-image" -> 1000
      [] model = "recraft/remove-background" -> 500
      [] model = "recraft/crisp-upscale" -> 500
      [] OTHER -> -1

MIN_BALANCE_REQUIRED(model) ==
    CASE model = "veo3" -> 28000
      [] model = "veo3_fast" -> 7000
      [] model = "grok-imagine/text-to-video" -> 3000
      [] model = "kling-2.6-text-to-video" -> 6000
      [] model = "kling-2.6-image-to-video" -> 6000
      [] model = "bytedance/v1-pro-fast-image-to-video" -> 2000
      [] model = "sora-2-pro-text-to-video" -> 15000
      [] model = "sora-2-pro-image-to-video" -> 15000
      [] model = "sora-2-text-to-video" -> 3000
      [] model = "sora-2-image-to-video" -> 3000
      [] model = "seedream/4.5-text-to-image" -> 1000
      [] model = "google/nano-banana-edit" -> 500
      [] model = "google/nano-banana" -> 500
      [] model = "nano-banana-pro" -> 2000
      [] model = "recraft/remove-background" -> 500
      [] OTHER -> -1

V1_PRO_PRICES(resolution, duration) ==
    CASE resolution = "480p" /\ duration = "5" -> 2000
      [] resolution = "480p" /\ duration = "10" -> 4000
      [] resolution = "720p" /\ duration = "5" -> 3000
      [] resolution = "720p" /\ duration = "10" -> 8000
      [] resolution = "1080p" /\ duration = "5" -> 8000
      [] resolution = "1080p" /\ duration = "10" -> 16000
      [] OTHER -> -1

\* dict.get(key, default)
GetOr(v, default) == IF v = -1 THEN default ELSE v

get_v1_pro_price(resolution, duration) == GetOr(V1_PRO_PRICES(resolution, duration), 2000)

SORA_2_PRICES(duration) ==
    CASE duration = "10" -> 3000
      [] duration = "15" -> 4000
      [] OTHER -> -1

SORA_2_PRO_PRICES(quality, duration) ==
    CASE quality = "standard" /\ duration = "10" -> 15000
      [] quality = "standard" /\ duration = "15" -> 19000
      [] quality = "high" /\ duration = "10" -> 25000
      [] quality = "high" /\ duration = "15" -> 50000
      [] OTHER -> -1

\* an absent form field (None) and an empty one are both ""
get_sora_price(model, quality, duration) ==
    IF model \in {"sora-2-text-to-video", "sora-2-image-to-video"}
    THEN IF duration # "" THEN GetOr(SORA_2_PRICES(duration), 3000) ELSE 3000
    ELSE IF model \in {"sora-2-pro-text-to-video", "sora-2-pro-image-to-video"}
    THEN IF quality # "" /\ duration # ""
         THEN GetOr(SORA_2_PRO_PRICES(quality, duration), 15000)
         ELSE IF quality # "" THEN GetOr(SORA_2_PRO_PRICES(quality, "10"), 15000)
         ELSE IF duration # "" THEN GetOr(SORA_2_PRO_PRICES("standard", duration), 15000)
         ELSE 15000
    ELSE 0

PriceOfListed(model) == MODEL_PRICES(model)

get_generation_price(model) == GetOr(MODEL_PRICES(model), 1000)

get_min_balance_required(model) == GetOr(MIN_BALANCE_REQUIRED(model), 1000)

\* str.startswith, str.endswith
StartsWith(str, prefix) ==
    Len(str) >= Len(prefix) /\ SubSeq(str, 1, Len(prefix)) = prefix

EndsWith(str, suffix) ==
    Len(str) >= Len(suffix) /\ SubSeq(str, Len(str) - Len(suffix) + 1, Len(str)) = suffix

is_veo(model) == model \in {"veo3", "veo3_fast"}
is_gpt4o(model) == model = "gpt4o-image"
is_v1_pro(model) == model = "bytedance/v1-pro-fast-image-to-video"
is_sora(model) == StartsWith(model, "sora-") /\ ~EndsWith(model, "storyboard")
is_kling(model) == StartsWith(model, "kling-2.6")
is_sora_pro(model) == model \in {"sora-2-pro-text-to-video", "sora-2-pro-image-to-video"}

(***************************************************************************)
(* JSON values as Python holds them, one record shape for every kind:      *)
(* k the kind, s the text of a string or a number, a the items of a list,  *)
(* ks the keys of a dict in insertion order and o its values.              *)
(***************************************************************************)
JNull == [k |-> "null", s |-> "", a |-> <<>>, ks |-> <<>>, o |-> <<>>]
JStr(str) == [k |-> "str", s |-> str, a |-> <<>>, ks |-> <<>>, o |-> <<>>]
JNum(digits) == [k |-> "num", s |-> digits, a |-> <<>>, ks |-> <<>>, o |-> <<>>]
JList(items) == [k |-> "list", s |-> "", a |-> items, ks |-> <<>>, o |-> <<>>]
JDict(keys, vals) == [k |-> "dict", s |-> "", a |-> <<>>, ks |-> keys, o |-> vals]
JEmpty == JDict(<<>>, <<>>)
J1(k1, v1) == JDict(<<k1>>, k1 :> v1)
J2(k1, v1, k2, v2) == JDict(<<k1, k2>>, (k1 :> v1) @@ (k2 :> v2))

\* the outcome of a call that raised
Raises == "raise"

isinstance(v, kind) == v.k = kind

\* bool(v)
Truthy(v) ==
    CASE v.k = "null" -> FALSE
      [] v.k = "str" -> v.s # ""
      [] v.k = "num" -> v.s # "0"
      [] v.k = "list" -> Len(v.a) > 0
      [] v.k = "dict" -> Len(v.ks) > 0

\* x or y
Or(x, y) == IF Truthy(x) THEN x ELSE y

HasKey(d, key) == \E i \in 1..Len(d.ks) : d.ks[i] = key

\* d.get(key) of a dict d
Get(d, key) == IF HasKey(d, key) THEN d.o[key] ELSE JNull

\* isinstance(v, str) and v.startswith("http")
IsHttp(v) == isinstance(v, "str") /\ StartsWith(v.s, "http")

\* str.strip() leaves nothing
IsBlank(str) == \A i \in 1..Len(str) : SubSeq(str, i, i) = " "

LowerChar(c) ==
    CASE c = "A" -> "a" [] c = "B" -> "b" [] c = "C" -> "c" [] c = "D" -> "d"
      [] c = "E" -> "e" [] c = "F" -> "f" [] c = "G" -> "g" [] c = "H" -> "h"
      [] c = "I" -> "i" [] c = "J" -> "j" [] c = "K" -> "k" [] c = "L" -> "l"
      [] c = "M" -> "m" [] c = "N" -> "n" [] c = "O" -> "o" [] c = "P" -> "p"
      [] c = "Q" -> "q" [] c = "R" -> "r" [] c = "S" -> "s" [] c = "T" -> "t"
      [] c = "U" -> "u" [] c = "V" -> "v" [] c = "W" -> "w" [] c = "X" -> "x"
      [] c = "Y" -> "y" [] c = "Z" -> "z" [] OTHER -> c

\* str.lower()
RECURSIVE Lower(_)
Lower(str) ==
    IF str = "" THEN ""
    ELSE LowerChar(SubSeq(str, 1, 1)) \o Lower(SubSeq(str, 2, Len(str)))

\* repr(v) and str(v)
RECURSIVE Repr(_)
RECURSIVE ReprItems(_, _)
RECURSIVE ReprPairs(_, _)
ReprItems(items, i) ==
    IF i > Len(items) THEN ""
    ELSE (IF i > 1 THEN ", " ELSE "") \o Repr(items[i]) \o ReprItems(items, i + 1)

ReprPairs(d, i) ==
    IF i > Len(d.ks) THEN ""
    ELSE (IF i > 1 THEN ", " ELSE "") \o "'" \o d.ks[i] \o "': " \o Repr(d.o[d.ks[i]])
         \o ReprPairs(d, i + 1)

Repr(v) ==
    CASE v.k = "null" -> "None"
      [] v.k = "str" -> "'" \o v.s \o "'"
      [] v.k = "num" -> v.s
      [] v.k = "list" -> "[" \o ReprItems(v.a, 1) \o "]"
      [] v.k = "dict" -> "{" \o ReprPairs(v, 1) \o "}"

Str(v) == IF v.k = "str" THEN v.s ELSE Repr(v)

(***************************************************************************)
(* json.loads, for documents of strings without escapes, integers, null,   *)
(* arrays and objects.  A parse yields [ok, v, next]: whether it           *)
(* succeeded, the value and the position after it.                         *)
(***************************************************************************)
CharAt(doc, i) == IF i >= 1 /\ i <= Len(doc) THEN SubSeq(doc, i, i) ELSE ""

Digits == {"0", "1", "2", "3", "4", "5", "6", "7", "8", "9"}

ParseFail == [ok |-> FALSE, v |-> JNull, next |-> 0]

RECURSIVE SkipWs(_, _)
SkipWs(doc, i) == IF CharAt(doc, i) = " " THEN SkipWs(doc, i + 1) ELSE i

RECURSIVE ScanTo(_, _, _)
\* the first position from i on that holds a character of stop (its length
\* plus one where there is none)
ScanTo(doc, i, stop) ==
    IF i > Len(doc) \/ CharAt(doc, i) \in stop THEN i ELSE ScanTo(doc, i + 1, stop)

RECURSIVE ScanDigits(_, _)
ScanDigits(doc, i) == IF CharAt(doc, i) \in Digits THEN ScanDigits(doc, i + 1) ELSE i

ParseString(doc, i) ==
    LET j == ScanTo(doc, i + 1, {"\""})
    IN  IF CharAt(doc, i) = "\"" /\ j <= Len(doc)
        THEN [ok |-> TRUE, v |-> JStr(SubSeq(doc, i + 1, j - 1)), next |-> j + 1]
        ELSE ParseFail

PutKey(d, key, val) ==
    IF HasKey(d, key) THEN JDict(d.ks, [d.o EXCEPT ![key] = val])
    ELSE JDict(Append(d.ks, key), d.o @@ (key :> val))

RECURSIVE ParseValue(_, _)
RECURSIVE ParseElems(_, _, _)
RECURSIVE ParseMembers(_, _, _)
ParseElems(doc, i, acc) ==
    LET e == ParseValue(doc, i)
        j == SkipWs(doc, e.next)
    IN  IF ~e.ok THEN ParseFail
        ELSE IF CharAt(doc, j) = "," THEN ParseElems(doc, j + 1, Append(acc, e.v))
        ELSE IF CharAt(doc, j) = "]"
             THEN [ok |-> TRUE, v |-> JList(Append(acc, e.v)), next |-> j + 1]
        ELSE ParseFail

ParseMembers(doc, i, d) ==
    LET key == ParseString(doc, SkipWs(doc, i))
        c == SkipWs(doc, key.next)
        e == ParseValue(doc, c + 1)
        j == SkipWs(doc, e.next)
    IN  IF ~key.ok \/ CharAt(doc, c) # ":" THEN ParseFail
        ELSE IF ~e.ok THEN ParseFail
        ELSE IF CharAt(doc, j) = "," THEN ParseMembers(doc, j + 1, PutKey(d, key.v.s, e.v))
        ELSE IF CharAt(doc, j) = "}"
             THEN [ok |-> TRUE, v |-> PutKey(d, key.v.s, e.v), next |-> j + 1]
        ELSE ParseFail

ParseValue(doc, i0) ==
    LET i == SkipWs(doc, i0)
        c == CharAt(doc, i)
    IN  CASE c = "\"" -> ParseString(doc, i)
          [] c = "[" ->
                 IF CharAt(doc, SkipWs(doc, i + 1)) = "]"
                 THEN [ok |-> TRUE, v |-> JList(<<>>), next |-> SkipWs(doc, i + 1) + 1]
                 ELSE ParseElems(doc, i + 1, <<>>)
          [] c = "{" ->
                 IF CharAt(doc, SkipWs(doc, i + 1)) = "}"
                 THEN [ok |-> TRUE, v |-> JEmpty, next |-> SkipWs(doc, i + 1) + 1]
                 ELSE ParseMembers(doc, i + 1, JEmpty)
          [] c = "n" ->
                 IF SubSeq(doc, i, i + 3) = "null" /\ i + 3 <= Len(doc)
                 THEN [ok |-> TRUE, v |-> JNull, next |-> i + 4]
                 ELSE ParseFail
          [] c \in Digits ->
                 [ok |-> TRUE, v |-> JNum(SubSeq(doc, i, ScanDigits(doc, i) - 1)),
                  next |-> ScanDigits(doc, i)]
          [] OTHER -> ParseFail

\* [ok |-> FALSE] where json.loads raises
json_loads(doc) ==
    LET r == ParseValue(doc, 1)
    IN  IF r.ok /\ SkipWs(doc, r.next) > Len(doc) THEN r ELSE ParseFail

(***************************************************************************)
(* The result extractors of app/services/kie.py.  Each yields the URL, or  *)
(* NoneStr for None, or Raises where x.get is called on a value that is    *)
(* not a dict.                                                             *)
(***************************************************************************)
StandardKeys == <<"resultUrl", "url", "imageUrl", "resultImageUrl", "image_url", "result_url">>

\* lines 146-157: the images array
FromImages(response, data) ==
    LET images == Or(Get(response, "images"), Get(data, "images"))
        first_image == images.a[1]
        url == Or(Get(first_image, "url"), Get(first_image, "imageUrl"))
    IN  IF isinstance(images, "list") /\ Len(images.a) > 0
        THEN IF isinstance(first_image, "dict")
             THEN IF IsHttp(url) THEN url.s ELSE NoneStr
             ELSE IF IsHttp(first_image) THEN first_image.s ELSE NoneStr
        ELSE NoneStr

\* lines 160-164: the first of the standard keys that holds an http string
RECURSIVE FromKeys(_, _, _, _)
FromKeys(response, data, record, i) ==
    IF i > Len(StandardKeys) THEN NoneStr
    ELSE LET key == StandardKeys[i]
             val == Or(Or(Get(response, key), Get(data, key)), Get(record, key))
         IN  IF IsHttp(val) THEN val.s ELSE FromKeys(response, data, record, i + 1)

SkipResultUrls(response, data, record) == NoneStr

\* lines 167-178: the resultUrls array
FromResultUrls(response, data, record) ==
    LET result_urls == Or(Or(Get(response, "resultUrls"), Get(data, "resultUrls")),
                          Get(record, "resultUrls"))
    IN  IF isinstance(result_urls, "list") /\ Len(result_urls.a) > 0
           /\ IsHttp(result_urls.a[1])
        THEN result_urls.a[1].s ELSE NoneStr

RECURSIVE extract_result_url(_)
\* lines 181-195: resultJson, a document to parse or a dict to descend into
FromResultJson(response, data) ==
    LET result_json == Or(Get(response, "resultJson"), Get(data, "resultJson"))
        parsed == json_loads(result_json.s)
        inner == extract_result_url(parsed.v)
    IN  IF isinstance(result_json, "str") /\ ~IsBlank(result_json.s)
        THEN IF parsed.ok /\ inner # Raises THEN inner ELSE NoneStr
        ELSE IF isinstance(result_json, "dict") THEN extract_result_url(result_json)
        ELSE NoneStr

FirstFound(x, y) == IF x # NoneStr THEN x ELSE y

extract_result_url(record) ==
    IF ~isinstance(record, "dict") THEN NoneStr
    ELSE LET data == Or(Get(record, "data"), JEmpty)
         IN  IF ~isinstance(data, "dict") THEN Raises
             ELSE LET response == Or(Get(data, "response"), data)
                  IN  IF ~isinstance(response, "dict") THEN Raises
                      ELSE FirstFound(FromImages(response, data),
                           FirstFound(FromKeys(response, data, record, 1),
                           FirstFound(FromResultUrls(response, data, record),
                                      FromResultJson(response, data))))

extract_veo_result_url(record) ==
    IF ~isinstance(record, "dict") THEN NoneStr
    ELSE LET data == Or(Get(record, "data"), JEmpty)
         IN  IF ~isinstance(data, "dict") THEN Raises
             ELSE LET info == Or(Get(data, "info"), JEmpty)
                  IN  IF ~isinstance(info, "dict") THEN Raises
                      ELSE LET result_urls_str == Or(Get(info, "resultUrls"),
                                                     Get(data, "resultUrls"))
                               parsed == json_loads(result_urls_str.s)
                               urls == IF isinstance(result_urls_str, "str")
                                       THEN IF parsed.ok THEN parsed.v ELSE JNull
                                       ELSE result_urls_str
                           IN  IF isinstance(urls, "list") /\ Len(urls.a) > 0
                                  /\ IsHttp(urls.a[1])
                               THEN urls.a[1].s ELSE NoneStr

(***************************************************************************)
(* The generation handlers of app/routes/generate.py.  A Generation row    *)
(* holds tgid, model, status, kie_task_id ("" for None) and result_url     *)
(* (NoneStr for None).  An absent form field is "".                        *)
(***************************************************************************)
TaskOnEveryRow(u, model, status, task) ==
    [tgid |-> u, model |-> model, status |-> status, kie_task_id |-> "task-1",
     result_url |-> NoneStr]

NewGeneration(u, model, status, task) ==
    [tgid |-> u, model |-> model, status |-> status, kie_task_id |-> task,
     result_url |-> NoneStr]

\* sub in str
RECURSIVE ContainsFrom(_, _, _)
ContainsFrom(str, sub, i) ==
    IF i + Len(sub) - 1 > Len(str) THEN FALSE
    ELSE IF SubSeq(str, i, i + Len(sub) - 1) = sub THEN TRUE
    ELSE ContainsFrom(str, sub, i + 1)

Contains(str, sub) == ContainsFrom(str, sub, 1)

\* the keywords generate_video passes to build_payload_for_model
VideoKwargs == BuildPayloadParams \cup {"duration", "sound"}

\* the call build_payload_for_model(**kwargs): TypeError for a keyword the
\* function does not declare, NameError where its body reads the name
\* duration (kie.py line 524), else a payload
build_payload_for_model(model, kwargs) ==
    IF ~(kwargs \subseteq BuildPayloadParams) THEN "TypeError"
    ELSE IF is_v1_pro(model) THEN "NameError"
    ELSE "ok"

(***************************************************************************)
(* The body of build_payload_for_model (kie.py lines 316-543).  The        *)
(* arguments are a record a of model, prompt, aspect_ratio, resolution,    *)
(* output_format, quality, mode ("" for None or an empty string) and       *)
(* image_urls (a sequence).  A payload is a function from its keys to      *)
(* their values, the keys of payload["input"] next to "model".             *)
(***************************************************************************)
\* seq[:n]
Take(seq, n) == SubSeq(seq, 1, IF Len(seq) < n THEN Len(seq) ELSE n)

\* x or default, for strings
OrStr(x, default) == IF x = "" THEN default ELSE x

\* d.get(key, default)
DictGet(d, key, default) == IF key \in DOMAIN d THEN d[key] ELSE default

NoKeys == [k \in {} |-> k]

\* a key that is set under a condition
Opt(cond, key, val) == IF cond THEN key :> val ELSE NoKeys

\* lines 322-327
GPT4O_SIZE_MAP ==
    ("1:1" :> "1:1") @@ ("3:2" :> "3:2") @@ ("2:3" :> "2:3") @@ ("auto" :> "1:1")

\* lines 342-354
SIZE_MAP ==
    [k \in {"9:16", "16:9", "1:1", "3:4", "4:3", "2:3", "3:2", "5:4", "4:5", "21:9",
            "auto"} |-> k]

\* line 355: size_map.get(aspect_ratio or "auto", aspect_ratio or "auto")
image_size(aspect_ratio) ==
    DictGet(SIZE_MAP, OrStr(aspect_ratio, "auto"), OrStr(aspect_ratio, "auto"))

CreateVariantOnly(model, image_urls) == "google/nano-banana"

\* lines 385-390: the create variant without images, the edit variant with
actual_model(model, image_urls) ==
    IF image_urls = <<>> THEN "google/nano-banana" ELSE "google/nano-banana-edit"

\* the payload of the models that take image_size and output_format
\* (lines 419-426, 431-438, 455-462, 480-487, 532-539)
SizedPayload(a, model) ==
    ("model" :> model) @@ ("prompt" :> Take(a.prompt, 5000))
        @@ ("image_size" :> image_size(a.aspect_ratio))
        @@ ("output_format" :> OrStr(a.output_format, "png"))

build_payload(a) ==
    LET urls == a.image_urls
        has == urls # <<>>
        m == a.model
    IN  IF is_gpt4o(m)
        THEN ("prompt" :> a.prompt)
                 @@ ("size" :> DictGet(GPT4O_SIZE_MAP, OrStr(a.aspect_ratio, "auto"), "1:1"))
                 @@ ("nVariants" :> 1) @@ Opt(has, "filesUrl", Take(urls, 5))
        ELSE IF m \in {"nano-banana-pro", "google/pro-image-to-image"}
        THEN ("model" :> "nano-banana-pro") @@ ("prompt" :> Take(a.prompt, 5000))
                 @@ Opt(has, "image_input", Take(urls, 10))
                 @@ Opt(a.aspect_ratio # "", "aspect_ratio", a.aspect_ratio)
                 @@ Opt(a.resolution # "", "resolution", a.resolution)
                 @@ Opt(a.output_format # "", "output_format", Lower(a.output_format))
        ELSE IF m = "google/nano-banana-edit"
        THEN ("model" :> actual_model(m, urls)) @@ ("prompt" :> Take(a.prompt, 5000))
                 @@ ("output_format" :> "png")
                 @@ ("image_size" :> image_size(a.aspect_ratio))
                 @@ Opt(has, "image_urls", Take(urls, 10)) @@ Opt(has, "mode", "edit")
        ELSE IF m = "google/nano-banana"
        THEN ("model" :> m) @@ ("prompt" :> Take(a.prompt, 5000))
                 @@ ("output_format" :> "png")
                 @@ ("image_size" :> image_size(a.aspect_ratio))
        ELSE IF m \in {"flux2/pro-image-to-image", "flux2/flex-image-to-image"}
        THEN SizedPayload(a, m) @@ Opt(has, "image_urls", Take(urls, 5))
        ELSE IF m \in {"flux2/pro-text-to-image", "flux2/flex-text-to-image"}
        THEN SizedPayload(a, m)
        ELSE IF m \in {"bytedance/seedream-v4-text-to-image", "seedream/4.5-text-to-image"}
        THEN IF Contains(m, "4.5")
             THEN ("model" :> m) @@ ("prompt" :> Take(a.prompt, 3000))
                      @@ ("aspect_ratio" :> OrStr(a.aspect_ratio, "1:1"))
                      @@ ("quality" :> OrStr(a.quality, "basic"))
             ELSE SizedPayload(a, "bytedance/seedream-v4-text-to-image")
        ELSE IF m \in {"bytedance/seedream-v4-edit", "seedream/4.5-edit"}
        THEN IF Contains(m, "4.5")
             THEN ("model" :> m) @@ ("prompt" :> Take(a.prompt, 3000))
                      @@ ("aspect_ratio" :> OrStr(a.aspect_ratio, "1:1"))
                      @@ ("quality" :> OrStr(a.quality, "basic"))
                      @@ Opt(has, "image_urls", Take(urls, 14))
             ELSE SizedPayload(a, "bytedance/seedream-v4-edit")
                      @@ Opt(has, "image_urls", Take(urls, 5))
        ELSE IF m = "grok-imagine/text-to-video"
        THEN ("model" :> m) @@ ("prompt" :> Take(a.prompt, 5000))
                 @@ ("mode" :> OrStr(a.mode, "normal"))
                 @@ Opt(a.aspect_ratio # "", "aspect_ratio", a.aspect_ratio)
        ELSE IF m = "grok-imagine/image-to-video"
        THEN ("model" :> m) @@ ("prompt" :> Take(a.prompt, 5000))
                 @@ ("mode" :> OrStr(a.mode, "normal"))
                 @@ Opt(has, "image_urls", Take(urls, 1))
        ELSE SizedPayload(a, m) @@ Opt(has, "image_urls", Take(urls, 5))

\* the value the call returns, (payload, is_gpt4o), or the exception it
\* raises: the branch of bytedance/v1-pro-fast-image-to-video reads the
\* name duration, which the function does not define (line 524)
build_payload_result(a) ==
    IF is_v1_pro(a.model)
    THEN [raised |-> "NameError", payload |-> NoKeys, is_gpt4o |-> FALSE]
    ELSE [raised |-> "", payload |-> build_payload(a), is_gpt4o |-> is_gpt4o(a.model)]

\* what create_task ends with: a task id, a KieError with its message, or
\* an exception of the transport (ReadTimeout)
TaskId == "task-1"
SubmitInputs ==
    {TaskId, "Create task failed (code 422): bad input",
     "Create task failed (code 500): Validation failed",
     "Create task failed: HTTP 502", "ReadTimeout"}

IsKieError(outcome) == StartsWith(outcome, "Create task")

RejectedAsBadRequest(outcome) == IF IsKieError(outcome) THEN 400 ELSE 500

\* the except clauses of the dispatch: KieError to 422 or 400, others to 500
SubmitErrorCode(outcome) ==
    IF IsKieError(outcome)
    THEN IF Contains(outcome, "422") \/ Contains(Lower(outcome), "code 422")
            \/ Contains(Lower(outcome), "validation")
         THEN 422 ELSE 400
    ELSE 500

\* the provider dispatch: the adapter, then create_task if it built a
\* payload; the outcome is the task id or what was raised
Dispatch(model, kwargs, submit) ==
    IF build_payload_for_model(model, kwargs) = "ok" THEN submit
    ELSE build_payload_for_model(model, kwargs)

PersistAlways(rows, row, outcome) == Append(rows, row)

\* the row is added only past the try block, which every failure leaves
\* with an HTTPException
RowsAfterDispatch(rows, row, outcome) ==
    IF outcome = TaskId THEN Append(rows, row) ELSE rows

Debited(bal, u, price) == [bal EXCEPT ![u] = @ - price]

\* "the balance is not debited here, that is done in n8n"
BalanceAfterDispatch(bal, u, price) == bal

AnyPostFails(nfailed) == nfailed > 0

\* the fan-out to the n8n endpoints: an error only if every post failed
FanOutFails(nfailed) == nfailed > 0 /\ nfailed = cfg.n8n

\* the outcome of a generate request: the answer's code, how the dispatch
\* ended, the outbound calls made, and the row added if any
GenOutcome(op, code, resp, calls) ==
    [NoLast EXCEPT !.op = op, !.code = code, !.resp = resp, !.calls = calls,
                   !.gensBefore = Len(generations),
                   !.gid = IF code = 200 THEN Len(generations) + 1 ELSE 0]

\* the same for a request that posted to the n8n endpoints, nfailed of the
\* posts having failed
FanOutOutcome(op, code, calls, nfailed) ==
    [GenOutcome(op, code, "n8n", calls \cup {"n8n"}) EXCEPT !.failed = nfailed]

\* the common tail of generate_image and generate_video, from the balance
\* check passed and the files uploaded on: the n8n fan-out or the provider
GenerateDispatch(op, u, model, kwargs, calls, submit, nfailed) ==
    LET outcome == Dispatch(model, kwargs, submit)
        reached == IF build_payload_for_model(model, kwargs) = "ok"
                   THEN calls \cup {"create_task"} ELSE calls
        price == get_generation_price(model)
    IN  IF cfg.n8n > 0
        THEN IF FanOutFails(nfailed)
             THEN /\ last' = FanOutOutcome(op, 500, calls, nfailed)
                  /\ UNCHANGED <<generations, balance>>
             ELSE /\ generations' = Append(generations,
                                           NewGeneration(u, model, "sent_to_n8n", ""))
                  /\ last' = FanOutOutcome(op, 200, calls, nfailed)
                  /\ UNCHANGED balance
        ELSE /\ generations' = RowsAfterDispatch(generations,
                                   NewGeneration(u, model, "queued", TaskId), outcome)
             /\ balance' = IF outcome = TaskId
                           THEN BalanceAfterDispatch(balance, u, price) ELSE balance
             /\ last' = GenOutcome(op, IF outcome = TaskId THEN 200
                                        ELSE SubmitErrorCode(outcome), outcome, reached)

\* a request ends at once with an HTTPException
GenRefuse(op, code, calls) ==
    /\ last' = GenOutcome(op, code, "", calls)
    /\ UNCHANGED <<generations, balance>>

\* status 402 with required_balance, current_balance and model in the detail
InsufficientBalance(op, u, model, required, calls) ==
    /\ last' = [GenOutcome(op, 402, "", calls) EXCEPT
                    !.required = required, !.available = balance[u], !.model = model]
    /\ UNCHANGED <<generations, balance>>

genUnchanged == <<referred_by, payments, gateway, cfg, req, credited, bonused,
                  notified, stage, invited, call>>

\* the files of a request: none, image_urls given in the form, or files to
\* upload (upload_file_stream posts each to the provider's file host)
FileInputs == {"none", "urls", "files"}

\* inputs that play no part in a request take one value: the upload's
\* outcome without files, the provider's answer where n8n endpoints are
\* set, the number of failed posts where none is
GenInputsNormal(files, uploadOk, submit, nfailed) ==
    /\ files # "files" => uploadOk
    /\ cfg.n8n > 0 => submit = TaskId
    /\ nfailed <= cfg.n8n

(***************************************************************************)
(* POST /generate/image.  template: "" (none given), "found" or "missing". *)
(***************************************************************************)
generate_image(u, model, template, files, uploadOk, submit, nfailed) ==
    LET op == "generate_image"
        min_balance == get_min_balance_required(model)
        uploads == IF files = "files" THEN {"upload"} ELSE {}
    IN  /\ GenInputsNormal(files, uploadOk, submit, nfailed)
        /\ users' = get_current_user(u)
        /\ IF template = "missing" THEN GenRefuse(op, 404, {})
           ELSE IF balance[u] < min_balance
                THEN InsufficientBalance(op, u, model, min_balance, {})
           ELSE IF files = "files" /\ ~uploadOk THEN GenRefuse(op, 400, uploads)
           ELSE GenerateDispatch(op, u, model, BuildPayloadParams, uploads, submit, nfailed)
        /\ Len(generations') <= MaxGens
        /\ UNCHANGED genUnchanged

(***************************************************************************)
(* POST /generate/video.                                                   *)
(***************************************************************************)
VideoRequired(model, resolution, duration) ==
    IF is_v1_pro(model) THEN get_v1_pro_price(resolution, duration)
    ELSE IF is_sora(model)
         THEN IF is_sora_pro(model) THEN get_sora_price(model, resolution, duration)
              ELSE get_sora_price(model, "", duration)
    ELSE get_min_balance_required(model)

\* the parameters the balance check asks for first (lines 305-315)
VideoParamsMissing(model, resolution, duration) ==
    \/ is_v1_pro(model) /\ (resolution = "" \/ duration = "")
    \/ is_sora(model) /\ duration = ""
    \/ is_sora(model) /\ is_sora_pro(model) /\ resolution = ""

generate_video(u, model, files, uploadOk, resolution, duration, submit, nfailed) ==
    LET op == "generate_video"
        required == VideoRequired(model, resolution, duration)
        uploads == IF files = "files" THEN {"upload"} ELSE {}
    IN  /\ GenInputsNormal(files, uploadOk, submit, nfailed)
        /\ users' = get_current_user(u)
        /\ IF files = "files" /\ ~uploadOk THEN GenRefuse(op, 400, uploads)
           ELSE IF is_v1_pro(model) /\ files = "none" THEN GenRefuse(op, 400, uploads)
           ELSE IF VideoParamsMissing(model, resolution, duration)
                THEN GenRefuse(op, 400, uploads)
           ELSE IF balance[u] < required
                THEN InsufficientBalance(op, u, model, required, uploads)
           ELSE GenerateDispatch(op, u, model, VideoKwargs, uploads, submit, nfailed)
        /\ Len(generations') <= MaxGens
        /\ UNCHANGED genUnchanged

(***************************************************************************)
(* POST /generate/poll/{generation_id}.  data is what the provider's       *)
(* record endpoint answered, parsed.                                       *)
(***************************************************************************)
GenerationById(g, u) == IF g \in 1..Len(generations) THEN g ELSE 0

GenerationByIdAndTgid(g, u) ==
    IF g \in 1..Len(generations) /\ generations[g].tgid = u THEN g ELSE 0

\* line 733: (data.get("data") or {}).get("status") or data.get("status"),
\* which raises where data["data"] is neither empty nor a dict
PolledStatusRaises(data) == ~isinstance(Or(Get(data, "data"), JEmpty), "dict")

PolledStatus(data) ==
    Or(Get(Or(Get(data, "data"), JEmpty), "status"), Get(data, "status"))

KeepPolledStatus(polled, url) == polled

\* lines 746-749: a URL sets the status to done
StatusAfterPoll(polled, url) == IF url # NoneStr THEN "done" ELSE polled

poll_generation(u, gid, data) ==
    LET g == GenerationByIdAndTgid(gid, u)
        gen == generations[g]
        status == PolledStatus(data)
        polled == IF Truthy(status) THEN Lower(Str(status)) ELSE gen.status
        url == IF is_veo(gen.model) THEN extract_veo_result_url(data)
               ELSE extract_result_url(data)
        code == IF g = 0 THEN 404
                ELSE IF gen.kie_task_id = "" THEN 400
                ELSE IF ~isinstance(data, "dict") THEN 500
                ELSE IF PolledStatusRaises(data) \/ url = Raises THEN 500
                ELSE 200
        out == [NoLast EXCEPT !.op = "poll_generation", !.code = code, !.gid = g,
                              !.gensBefore = Len(generations)]
    IN  /\ users' = get_current_user(u)
        /\ IF code = 200
           THEN /\ generations' =
                       [generations EXCEPT ![g].status = StatusAfterPoll(polled, url),
                                           ![g].result_url =
                                               IF url # NoneStr THEN url ELSE @]
                /\ last' = [out EXCEPT !.url = url,
                                       !.resp = IF Truthy(status) THEN Str(status) ELSE ""]
           ELSE /\ last' = out
                /\ UNCHANGED generations
        /\ UNCHANGED balance
        /\ UNCHANGED genUnchanged

(***************************************************************************)
(* The generation ledger on its own: users with balances, requests to      *)
(* generate and to poll, and what the provider answers.                    *)
(***************************************************************************)
MaxEndpoints == 2

BalanceInputs == {400, 20000}

ImageModelInputs ==
    {"google/nano-banana-edit", "veo3_fast", "bytedance/v1-pro-fast-image-to-video"}

VideoModelInputs ==
    {"veo3_fast", "bytedance/v1-pro-fast-image-to-video", "sora-2-pro-text-to-video"}

ResolutionInputs == {"", "480p"}
DurationInputs == {"", "10"}

RespProcessing == J1("data", J1("status", JStr("processing")))
RespStale ==
    J1("data", J2("status", JStr("processing"), "resultUrls", JList(<<JStr("http://a")>>)))
RespResultJson ==
    J1("data", J2("state", JStr("success"),
                  "resultJson", JStr("{\"resultUrls\": [\"http://j\"]}")))
RespFailed == J1("data", J1("status", JStr("FAILED")))
RespVeo ==
    J2("status", JStr("SUCCESS"),
       "data", J1("info", J1("resultUrls", JStr("[\"http://v\"]"))))
RespText == J1("data", JStr("oops"))
RespBadResponse == J1("data", J2("status", JStr("done"), "response", JStr("text")))
RespNotDict == JList(<<>>)

PollResponses ==
    {RespProcessing, RespStale, RespResultJson, RespFailed, RespVeo, JEmpty,
     RespText, RespBadResponse, RespNotDict}

GenCfgs == {Cfg(TRUE, TRUE, FALSE, FALSE, 0), Cfg(TRUE, TRUE, FALSE, FALSE, MaxEndpoints)}

GenInit ==
    /\ users = Tgids
    /\ balance \in [Tgids -> BalanceInputs]
    /\ referred_by = [u \in Tgids |-> NoTgid]
    /\ payments = <<>>
    /\ gateway = [k \in PayIds |-> "none"]
    /\ cfg \in GenCfgs
    /\ req = [s \in Slots |-> Idle]
    /\ credited = [k \in PayIds |-> 0]
    /\ bonused = [k \in PayIds |-> 0]
    /\ notified = [k \in PayIds |-> 0]
    /\ stage = [k \in PayIds |-> 0]
    /\ invited = [u \in Tgids |-> NoTgid]
    /\ generations = <<>>
    /\ last = NoLast
    /\ call = NoCall

GenNext ==
    \/ \E u \in Tgids, model \in ImageModelInputs, template \in {"", "missing"},
          files \in FileInputs, uploadOk \in BOOLEAN, submit \in SubmitInputs,
          nfailed \in 0..MaxEndpoints :
           generate_image(u, model, template, files, uploadOk, submit, nfailed)
    \/ \E u \in Tgids, model \in VideoModelInputs, files \in FileInputs,
          uploadOk \in BOOLEAN, resolution \in ResolutionInputs,
          duration \in DurationInputs, submit \in {TaskId, "ReadTimeout"},
          nfailed \in 0..MaxEndpoints :
           generate_video(u, model, files, uploadOk, resolution, duration, submit, nfailed)

SpecGen == GenInit /\ [][GenNext]_vars

(***************************************************************************)
(* Polling on its own: a table of rows as generate_image and               *)
(* generate_video leave them, and what the provider answers to the polls.  *)
(***************************************************************************)
PolledModels == {"google/nano-banana-edit", "veo3_fast"}

FreshRows ==
    {NewGeneration(u, model, "queued", TaskId) : u \in Tgids, model \in PolledModels}
    \cup {NewGeneration(u, model, "sent_to_n8n", "") : u \in Tgids, model \in PolledModels}

FreshTables == UNION {[1..n -> FreshRows] : n \in 0..MaxGens}

PollInit ==
    /\ users = Tgids
    /\ balance = [u \in Tgids |-> 0]
    /\ referred_by = [u \in Tgids |-> NoTgid]
    /\ payments = <<>>
    /\ gateway = [k \in PayIds |-> "none"]
    /\ cfg = Cfg(TRUE, TRUE, FALSE, FALSE, 0)
    /\ req = [s \in Slots |-> Idle]
    /\ credited = [k \in PayIds |-> 0]
    /\ bonused = [k \in PayIds |-> 0]
    /\ notified = [k \in PayIds |-> 0]
    /\ stage = [k \in PayIds |-> 0]
    /\ invited = [u \in Tgids |-> NoTgid]
    /\ generations \in FreshTables
    /\ last = NoLast
    /\ call = NoCall

PollNext ==
    \E u \in Tgids, gid \in 1..MaxGens, data \in PollResponses :
        poll_generation(u, gid, data)

SpecPoll == PollInit /\ [][PollNext]_vars

(***************************************************************************)
(* The reading endpoints: GET /history, GET /history/{generation_id} and   *)
(* GET /payments/history.  last.rows holds the ids of the rows answered.   *)
(***************************************************************************)
readUnchanged == <<balance, referred_by, payments, gateway, cfg, req, credited,
                   bonused, notified, stage, invited, generations, call>>

ReadOutcome(op, u, code, asked, rows) ==
    [NoLast EXCEPT !.op = op, !.caller = u, !.code = code, !.asked = asked,
                   !.rows = rows]

\* history.py lines 13-18
my_history(u) ==
    /\ users' = get_current_user(u)
    /\ last' = ReadOutcome("my_history", u, 200, 0,
                           {g \in 1..Len(generations) : generations[g].tgid = u})
    /\ UNCHANGED readUnchanged

\* history.py lines 21-33
get_generation(u, gid) ==
    LET g == GenerationByIdAndTgid(gid, u)
    IN  /\ users' = get_current_user(u)
        /\ last' = ReadOutcome("get_generation", u, IF g = 0 THEN 404 ELSE 200, gid,
                               IF g = 0 THEN {} ELSE {g})
        /\ UNCHANGED readUnchanged

\* .limit(50) on the rows ordered by created_at, the latest first
HistoryLimit == 50

Latest(rows, n) == {p \in rows : Cardinality({q \in rows : q > p}) < n}

\* payments.py lines 329-352
get_payment_history(u) ==
    /\ users' = get_current_user(u)
    /\ last' = ReadOutcome("get_payment_history", u, 200, 0,
                           Latest({p \in 1..Len(payments) : payments[p].tgid = u},
                                  HistoryLimit))
    /\ UNCHANGED readUnchanged

(***************************************************************************)
(* The reading and polling endpoints over tables of rows as the creating   *)
(* handlers leave them: generations queued or sent to n8n, payments        *)
(* pending, each held by the gateway as pending or succeeded.              *)
(***************************************************************************)
MaxPending == 1

PendingTables ==
    UNION {{t \in [1..n -> [tgid : Tgids, yookassa_payment_id : 1..n,
                            amount : {BALANCE_PLANS["base"].amount},
                            tokens : {BALANCE_PLANS["base"].tokens},
                            status : {"pending"}, plan_code : {"base"}]] :
                \A k \in 1..n : t[k] = NewPayment(t[k].tgid, k, "base")} :
           n \in 0..MaxPending}

ReadInit ==
    /\ generations \in FreshTables
    /\ payments \in PendingTables
    /\ users \in {U \in SUBSET Tgids :
                     /\ \A g \in 1..Len(generations) : generations[g].tgid \in U
                     /\ \A p \in 1..Len(payments) : payments[p].tgid \in U}
    /\ gateway \in {gw \in [PayIds -> {"none", "pending", "succeeded"}] :
                       \A k \in PayIds : gw[k] = "none" <=> k > Len(payments)}
    /\ balance = [u \in Tgids |-> 0]
    /\ referred_by = [u \in Tgids |-> NoTgid]
    /\ cfg = Cfg(TRUE, TRUE, FALSE, FALSE, 0)
    /\ req = [s \in Slots |-> Idle]
    /\ credited = [k \in PayIds |-> 0]
    /\ bonused = [k \in PayIds |-> 0]
    /\ notified = [k \in PayIds |-> 0]
    /\ stage = [k \in PayIds |-> 0]
    /\ invited = [u \in Tgids |-> NoTgid]
    /\ last = NoLast
    /\ call = NoCall

ReadNext ==
    \/ \E u \in Tgids, gid \in 1..MaxGens, data \in PollResponses :
           poll_generation(u, gid, data)
    \/ \E u \in Tgids, gid \in 1..MaxGens : get_generation(u, gid)
    \/ \E u \in Tgids : my_history(u)
    \/ \E u \in Tgids : get_payment_history(u)
    \/ \E s \in Slots, u \in Tgids, pidIn \in PayIds, uuidOk \in BOOLEAN :
           get_payment_status(s, u, pidIn, uuidOk)
    \/ \E s \in Slots, gwOk \in BOOLEAN, up \in BOOLEAN : get_payment_status_resume(s, gwOk, up)

SpecRead == ReadInit /\ [][ReadNext]_vars

(***************************************************************************)
(* The result extractors on their own: one call of extract_result_url or   *)
(* extract_veo_result_url on a response drawn from a family of JSON        *)
(* values that put values of every kind under the fields the extractors    *)
(* read.                                                                   *)
(***************************************************************************)
ExtractFields == {"data", "response", "info", "images", "resultUrls", "resultJson", "url"}

UrlArrays == {JList(<<JStr("http://a")>>), JList(<<JStr("http://a"), JStr("http://b")>>)}

\* resultJson documents that hold a URL of their own
UrlDocs ==
    {JStr("{\"resultUrls\": [\"http://j\"]}"), JStr("{\"url\": \"http://j\"}"),
     JStr("{\"data\": {\"resultUrl\": \"http://j\"}}")}

ExtractValues ==
    {JNull, JStr(""), JStr("text"), JStr("http://s"), JNum("7"), JList(<<>>),
     JList(<<JNum("7")>>), JList(<<J1("url", JStr("http://i"))>>), JEmpty,
     J1("url", JStr("http://c")), JStr("[\"http://v\"]"), JStr("{\"data\": 7}"),
     JStr("{broken")}
        \cup UrlArrays \cup UrlDocs

ExtractInputs ==
    {JNull, JStr("http://s"), JEmpty, JList(<<>>)}
        \cup {J1(f, v) : f \in ExtractFields, v \in ExtractValues}
        \cup {J1("data", J1(f, v)) : f \in ExtractFields, v \in ExtractValues}
        \cup {J1("data", J1("response", J1(f, v))) :
                  f \in ExtractFields \ {"data", "response", "info"}, v \in ExtractValues}
        \cup {J1("data", J2("resultUrls", a, "resultJson", j)) :
                  a \in UrlArrays, j \in UrlDocs}
        \cup {J1("data", J1("response", J2("resultJson", j, "resultUrls", a))) :
                  a \in UrlArrays, j \in UrlDocs}
        \cup {J2("resultUrls", a, "data", J1("resultJson", j)) :
                  a \in UrlArrays, j \in UrlDocs}

\* nothing but the call: the tables are empty and no request is in flight
NoRequests ==
    /\ users = Tgids
    /\ balance = [u \in Tgids |-> 0]
    /\ referred_by = [u \in Tgids |-> NoTgid]
    /\ payments = <<>>
    /\ gateway = [k \in PayIds |-> "none"]
    /\ cfg = Cfg(TRUE, TRUE, FALSE, FALSE, 0)
    /\ req = [s \in Slots |-> Idle]
    /\ credited = [k \in PayIds |-> 0]
    /\ bonused = [k \in PayIds |-> 0]
    /\ notified = [k \in PayIds |-> 0]
    /\ stage = [k \in PayIds |-> 0]
    /\ invited = [u \in Tgids |-> NoTgid]
    /\ generations = <<>>
    /\ last = NoLast

ledgerVars == <<users, balance, referred_by, payments, gateway, cfg, req, credited,
                bonused, notified, stage, invited, generations, last>>

ExtractInit ==
    /\ NoRequests
    /\ call \in [fn : {"extract_result_url", "extract_veo_result_url"},
                 done : {FALSE}, arg : ExtractInputs, out : {NoneStr}]

call_extract_result_url ==
    /\ call.fn = "extract_result_url" /\ ~call.done
    /\ call' = [call EXCEPT !.done = TRUE, !.out = extract_result_url(call.arg)]
    /\ UNCHANGED ledgerVars

call_extract_veo_result_url ==
    /\ call.fn = "extract_veo_result_url" /\ ~call.done
    /\ call' = [call EXCEPT !.done = TRUE, !.out = extract_veo_result_url(call.arg)]
    /\ UNCHANGED ledgerVars

ExtractNext == call_extract_result_url \/ call_extract_veo_result_url

SpecExtract == ExtractInit /\ [][ExtractNext]_vars

(***************************************************************************)
(* build_payload_for_model applied to bounded arguments.                   *)
(***************************************************************************)
AdaptModels ==
    {"gpt4o-image", "nano-banana-pro", "google/pro-image-to-image",
     "google/nano-banana-edit", "google/nano-banana",
     "flux2/pro-image-to-image", "flux2/flex-image-to-image",
     "flux2/pro-text-to-image", "flux2/flex-text-to-image",
     "bytedance/seedream-v4-text-to-image", "seedream/4.5-text-to-image",
     "bytedance/seedream-v4-edit", "seedream/4.5-edit",
     "grok-imagine/text-to-video", "grok-imagine/image-to-video",
     "bytedance/v1-pro-fast-image-to-video", "sora-2-text-to-video"}

\* None or "", a value of both size maps, values of one map only, and a
\* value of neither
AdaptAspects == {"", "auto", "3:2", "16:9", "7:1"}

AdaptFormats == {"", "png", "JPG", "bmp"}

MaxUrls == 6

AdaptUrls == {<<>>, <<"http://1">>, [i \in 1..MaxUrls |-> "http://n"]}

AdaptInputs ==
    [model : AdaptModels, prompt : {"a cat"}, aspect_ratio : AdaptAspects,
     resolution : {"", "2K"}, output_format : AdaptFormats, quality : {"", "high"},
     mode : {"", "fun"}, image_urls : AdaptUrls]

NoResult == [raised |-> "", payload |-> NoKeys, is_gpt4o |-> FALSE]

AdaptInit ==
    /\ NoRequests
    /\ call \in [fn : {"build_payload_for_model"}, done : {FALSE}, arg : AdaptInputs,
                 out : {NoResult}]

call_build_payload_for_model ==
    /\ call.fn = "build_payload_for_model"
    /\ ~call.done
    /\ call' = [call EXCEPT !.done = TRUE, !.out = build_payload_result(call.arg)]
    /\ UNCHANGED ledgerVars

AdaptNext == call_build_payload_for_model

SpecAdapt == AdaptInit /\ [][AdaptNext]_vars

(***************************************************************************)
(* get_generation_price and get_min_balance_required applied to model      *)
(* strings: the keys of both tables, the other models the handlers and the *)
(* adapter name, and strings that are no model.                            *)
(***************************************************************************)
PriceModels ==
    AdaptModels
        \cup {"recraft/remove-background", "recraft/crisp-upscale", "veo3", "veo3_fast",
              "kling-2.6-text-to-video", "kling-2.6-image-to-video",
              "sora-2-pro-text-to-video", "sora-2-pro-image-to-video",
              "sora-2-image-to-video"}
        \cup {"", "gold", "VEO3", "veo3 ", "nano-banana"}

PriceInit ==
    /\ NoRequests
    /\ call \in [fn : {"get_generation_price", "get_min_balance_required"},
                 done : {FALSE}, arg : PriceModels, out : {0}]

call_get_generation_price ==
    /\ call.fn = "get_generation_price" /\ ~call.done
    /\ call' = [call EXCEPT !.done = TRUE, !.out = get_generation_price(call.arg)]
    /\ UNCHANGED ledgerVars

call_get_min_balance_required ==
    /\ call.fn = "get_min_balance_required" /\ ~call.done
    /\ call' = [call EXCEPT !.done = TRUE, !.out = get_min_balance_required(call.arg)]
    /\ UNCHANGED ledgerVars

PriceNext == call_get_generation_price \/ call_get_min_balance_required

SpecPrice == PriceInit /\ [][PriceNext]_vars

(***************************************************************************)
(* Properties of the generation ledger.                                    *)
(***************************************************************************)
GenerateOps == {"generate_image", "generate_video"}

\* the dispatch of the request that ended last failed in the adapter or at
\* the provider
DispatchFailed(outcome) ==
    outcome.op \in GenerateOps /\ outcome.resp \notin {"", "n8n", TaskId}

\* this step is a generate request that the provider accepted: it added a
\* row that holds the provider's task id
Accepted ==
    /\ last'.op \in GenerateOps /\ last'.resp = TaskId
    /\ Len(generations') = Len(generations) + 1

\* C6 as stated: on the provider path, once the provider has returned a
\* task id the user's balance is reduced by the model's price.
C6_DebitedOnAcceptance ==
    [][Accepted =>
          LET gen == generations'[Len(generations')]
          IN  balance'[gen.tgid] = balance[gen.tgid] - get_generation_price(gen.model)]_vars

\* C6 amended: generate_image and generate_video leave every balance as it
\* was, whether the provider accepted the task or the submission failed.
C6_NoDebitOnDispatch ==
    [][last'.op \in GenerateOps => balance' = balance]_vars

\* the provider has accepted a task of generate_image: the row is queued
\* with the task id
C6_TaskAccepted ==
    /\ last.op = "generate_image" /\ last.code = 200 /\ last.resp = TaskId
    /\ generations[last.gid].kie_task_id = TaskId

\* C7: a request refused for insufficient balance (402, with the required
\* amount above the available one) has made no call to the provider and
\* added no row.
C7_RefusedBeforeProviderCall ==
    (last.op \in GenerateOps /\ last.code = 402)
        => /\ last.required > last.available
           /\ last.calls = {}
           /\ Len(generations) = last.gensBefore

\* C8: on the provider path, a request whose payload adapter or provider
\* submission failed answers with an error, adds no row and changes no
\* balance.
C8_FailedDispatchLeavesNoTrace ==
    [][DispatchFailed(last') =>
          /\ last'.code \in {400, 422, 500}
          /\ generations' = generations
          /\ balance' = balance]_vars

\* a dispatch has failed at the provider with a KieError, and one in the
\* adapter
C8_DispatchHasFailed ==
    DispatchFailed(last) /\ (IsKieError(last.resp) \/ last.resp = "TypeError")

\* C9: no poll changes the status of a row that is done, failed or
\* sent_to_n8n.
C9_TerminalStatusKept ==
    [][\A g \in 1..Len(generations) :
          generations[g].status \in {"done", "failed", "sent_to_n8n"}
              => generations'[g].status = generations[g].status]_vars

\* C10: when the extractor returned a URL to a poll, the row holds that URL
\* and is done, whatever status the response carried.
C10_UrlForcesDone ==
    (last.op = "poll_generation" /\ last.url # NoneStr)
        => /\ generations[last.gid].result_url = last.url
           /\ generations[last.gid].status = "done"

\* a poll whose response carried the status processing next to a URL
C10_StaleProcessingWithUrl ==
    /\ last.op = "poll_generation" /\ last.url = "http://a" /\ last.resp = "processing"
    /\ generations[last.gid].status = "done"

\* C11: a row with status sent_to_n8n has no provider task id, a row that
\* has one is not sent_to_n8n, and the request that created a row with a
\* task id called no automation endpoint (the one that created a
\* sent_to_n8n row called no provider endpoint to create a task).
C11_N8nExcludesTaskId ==
    /\ \A g \in 1..Len(generations) :
           generations[g].status = "sent_to_n8n" => generations[g].kie_task_id = ""
    /\ (last.op \in GenerateOps /\ last.code = 200)
           => IF generations[last.gid].kie_task_id # ""
              THEN "n8n" \notin last.calls /\ "create_task" \in last.calls
              ELSE "n8n" \in last.calls /\ "create_task" \notin last.calls

\* a request has been sent to the automation endpoints and its row persisted
C11_RowSentToN8n ==
    /\ last.op \in GenerateOps /\ last.code = 200 /\ last.resp = "n8n"
    /\ generations[last.gid].status = "sent_to_n8n"

(***************************************************************************)
(* Properties of the payment rows, the balances and the referrers.         *)
(***************************************************************************)
PaymentStatuses == {"pending", "succeeded"}

\* C12: a payment is created pending, holds no status other than pending
\* and succeeded, and a succeeded payment keeps its status in every step.
C12_PendingToSucceeded ==
    [][\A p \in 1..Len(payments') :
          IF p <= Len(payments)
          THEN /\ payments'[p].status \in PaymentStatuses
               /\ payments[p].status = "succeeded" => payments'[p].status = "succeeded"
          ELSE payments'[p].status = "pending"]_vars

\* a webhook for a payment the gateway holds as succeeded has ended, and
\* so has a status check of the same payment after it
C12_BothReconciled ==
    \E p \in Rows :
        /\ gateway[p] = "succeeded" /\ stage[p] = 1
        /\ last.op = "status" /\ last.pid = p /\ last.after

\* the request in slot s commits a reconciliation of payment p in this step
CommitsCredit(s, p) ==
    /\ Ends(s) /\ req[s].pid = p /\ req[s].pc \in {"w_commit", "s_commit"}
    /\ last'.resp \in {"ok", "succeeded"}

\* C13: a balance changes only in a step that commits the reconciliation of
\* a payment, and then only the payer's and the referrer's; creating a
\* payment, get_me, ignored and rejected webhooks and every request that
\* fails leave every balance as it was.
C13_OnlyCreditsChangeBalance ==
    [][\A u \in Tgids :
          balance'[u] # balance[u]
              => \E s \in Slots, p \in Rows :
                     CommitsCredit(s, p) /\ u \in {Owner(p), req[s].ref}]_vars

\* a webhook for a payment the gateway holds as succeeded has failed after
\* it had credited the payer in its session, and no balance has changed
C13_FailedWebhookEnded ==
    /\ last.op = "webhook" /\ last.resp = "error" /\ last.pid \in Rows
    /\ gateway[last.pid] = "succeeded"
    /\ \A u \in Tgids : balance[u] = 0

(***************************************************************************)
(* Properties of the result extractors.                                    *)
(***************************************************************************)
Extracted(fn) == call.fn = fn /\ call.done

\* C14: extract_result_url and extract_veo_result_url never raise: for
\* every input they return a URL string or none.
C14_ExtractIsTotal ==
    (Extracted("extract_result_url") \/ Extracted("extract_veo_result_url"))
        => call.out # Raises

\* the response holds, under data or data.response, a resultUrls array
\* whose first element is a URL and a resultJson string
ArrayAndJson(record) ==
    LET data == Get(record, "data")
        response == IF isinstance(data, "dict") /\ isinstance(Get(data, "response"), "dict")
                    THEN Get(data, "response") ELSE data
    IN  /\ isinstance(record, "dict") /\ isinstance(data, "dict")
        /\ isinstance(Get(response, "resultUrls"), "list")
        /\ Len(Get(response, "resultUrls").a) > 0
        /\ IsHttp(Get(response, "resultUrls").a[1])
        /\ Get(response, "resultJson") \in UrlDocs

ArrayFirst(record) ==
    LET data == Get(record, "data")
        response == IF isinstance(Get(data, "response"), "dict")
                    THEN Get(data, "response") ELSE data
    IN  Get(response, "resultUrls").a[1].s

\* C15: for a response that holds both a resultUrls array and a resultJson
\* string with a different URL in each, extract_result_url returns the
\* first element of the array.
C15_ArrayBeforeResultJson ==
    (Extracted("extract_result_url") /\ ArrayAndJson(call.arg))
        => call.out = ArrayFirst(call.arg)

\* extract_result_url has returned the array's URL for such a response
C15_ArrayWon ==
    /\ Extracted("extract_result_url") /\ ArrayAndJson(call.arg)
    /\ call.out = "http://a"

(***************************************************************************)
(* Properties of the payload adapter.                                      *)
(***************************************************************************)
Adapted == call.fn = "build_payload_for_model" /\ call.done /\ call.out.raised = ""

\* C16: for the model google/nano-banana-edit the payload's model is the
\* create variant google/nano-banana when no image reference is supplied,
\* and the payload then carries no image_urls; with at least one reference
\* it is the edit variant google/nano-banana-edit.
C16_VariantByReferences ==
    (Adapted /\ call.arg.model = "google/nano-banana-edit")
        => IF call.arg.image_urls = <<>>
           THEN /\ call.out.payload["model"] = "google/nano-banana"
                /\ "image_urls" \notin DOMAIN call.out.payload
           ELSE call.out.payload["model"] = "google/nano-banana-edit"

C16_EditWithReference ==
    /\ Adapted
    /\ call.arg.model = "google/nano-banana-edit"
    /\ call.arg.image_urls # <<>>
    /\ call.out.payload["model"] = "google/nano-banana-edit"
    /\ call.out.payload["image_urls"] = call.arg.image_urls

\* the values of the size map of a model's family, its default included
AllowedSizes(model) ==
    LET map == IF is_gpt4o(model) THEN GPT4O_SIZE_MAP ELSE SIZE_MAP
    IN  {map[k] : k \in DOMAIN map}

\* the adapter has no map of output formats; png is the one it names
AllowedFormats == {"png"}

SizeKeys == {"size", "image_size", "aspect_ratio"}

\* C17: in every payload the aspect-ratio or size value and the
\* output-format value belong to the family's allow-list or are its
\* default; a caller's value outside the list is never echoed raw.
C17_AllowListedValues ==
    Adapted
        => /\ \A k \in SizeKeys \cap DOMAIN call.out.payload :
                  call.out.payload[k] \in AllowedSizes(call.arg.model)
           /\ "output_format" \in DOMAIN call.out.payload
                  => call.out.payload["output_format"] \in AllowedFormats
                         \/ call.out.payload["output_format"] # call.arg.output_format

(***************************************************************************)
(* Properties of the fan-out and of the answers of the generate requests.  *)
(***************************************************************************)
FannedOut == last.op \in GenerateOps /\ "n8n" \in last.calls

\* C18: a generate request that fans out to the n8n endpoints answers with
\* an error and persists no Generation row if every post failed; if at
\* least one post succeeded it succeeds and persists exactly one row, with
\* status sent_to_n8n.
C18_FanOutAllOrRow ==
    FannedOut
        => IF last.failed = cfg.n8n
           THEN last.code = 500 /\ Len(generations) = last.gensBefore
           ELSE /\ last.code = 200
                /\ Len(generations) = last.gensBefore + 1
                /\ last.gid = Len(generations)
                /\ generations[last.gid].status = "sent_to_n8n"

C18_PartialFailure ==
    /\ FannedOut
    /\ last.failed > 0 /\ last.failed < cfg.n8n
    /\ last.code = 200
    /\ generations[last.gid].status = "sent_to_n8n"

\* the request was refused for its balance: the answer carries the
\* required and the current balance
InsufficientFunds == last.op \in GenerateOps /\ last.required > last.available

\* create_task was reached and the provider rejected the task
ProviderRejected ==
    last.op \in GenerateOps /\ "create_task" \in last.calls /\ IsKieError(last.resp)

\* the three classes of failure, the 422 class being the rejections whose
\* message satisfies named
FailureClasses(named) ==
    /\ InsufficientFunds => last.code = 402 /\ last.model # ""
    /\ ProviderRejected => last.code = IF named THEN 422 ELSE 400
    /\ (last.op \in GenerateOps /\ ~InsufficientFunds /\ ~ProviderRejected)
           => last.code \notin {402, 422}

C20_ReferrerSetOnce ==
    [][\A u \in Tgids :
           referred_by'[u] # referred_by[u]
               => /\ referred_by[u] = NoTgid
                  /\ referred_by'[u] # u
                  /\ referred_by'[u] \in users']_vars

\* get_me has been called for a user with the id of another user who has a
\* row, and has ended
C20_ReferrerPresented ==
    \E u \in Tgids : u \in users /\ invited[u] \in users \ {u} /\ referred_by[u] = NoTgid

(***************************************************************************)
(* Properties of the reading endpoints.                                    *)
(***************************************************************************)
StoreUnchanged ==
    UNCHANGED <<generations, payments, balance, referred_by, gateway, credited,
                bonused, notified>>

\* C21: a Generation or Payment row is readable only by the user whose id
\* owns it: poll_generation, get_generation and get_payment_status called
\* for a row of another user answer 404 and change no row and no balance;
\* my_history and get_payment_history answer only rows of the caller.
C21_ReadableByOwnerOnly ==
    [][/\ \A u \in Tgids, gid \in 1..Len(generations) :
              generations[gid].tgid # u
                  => /\ \A data \in PollResponses :
                            poll_generation(u, gid, data)
                                => last'.code = 404 /\ StoreUnchanged
                     /\ get_generation(u, gid)
                            => last'.code = 404 /\ last'.rows = {} /\ StoreUnchanged
       /\ \A u \in Tgids, pid \in 1..Len(payments), s \in Slots :
              (payments[pid].tgid # u /\ get_payment_status(s, u, pid, TRUE))
                  => last'.code = 404 /\ StoreUnchanged
       /\ \A u \in Tgids :
              /\ my_history(u)
                     => /\ \A g \in last'.rows : generations[g].tgid = u
                        /\ StoreUnchanged
              /\ get_payment_history(u)
                     => /\ \A p \in last'.rows : payments[p].tgid = u
                        /\ StoreUnchanged]_vars

\* get_generation has been asked for a row of another user and has
\* answered 404
C21_OtherUsersRowAsked ==
    /\ last.op = "get_generation"
    /\ last.asked \in 1..Len(generations)
    /\ generations[last.asked].tgid # last.caller
    /\ last.code = 404

(***************************************************************************)
(* Properties of the pricing functions.                                    *)
(***************************************************************************)
\* 10.0 credits
DefaultPrice == 1000

\* the value a table holds for a model, the default for a model it lacks
ListedOr(listed, default) == IF listed = -1 THEN default ELSE listed

\* C22: get_generation_price and get_min_balance_required are total: for
\* every model string the result is a value >= 0, the table's value for a
\* listed model and the default 10 for a model absent from the table.
C22_PricesTotal ==
    /\ (call.fn = "get_generation_price" /\ call.done)
           => /\ call.out >= 0
              /\ call.out = ListedOr(MODEL_PRICES(call.arg), DefaultPrice)
    /\ (call.fn = "get_min_balance_required" /\ call.done)
           => /\ call.out >= 0
              /\ call.out = ListedOr(MIN_BALANCE_REQUIRED(call.arg), DefaultPrice)

C22_UnknownModelPriced ==
    /\ call.fn = "get_generation_price" /\ call.done
    /\ MODEL_PRICES(call.arg) = -1
    /\ call.out = DefaultPrice

(***************************************************************************)
(* Properties of the provider dispatch.                                    *)
(***************************************************************************)
\* the answer of a request that passed the checks made before the dispatch
PassedPrecheck(outcome) == outcome.code \notin {400, 402, 404}

\* the step added one row, queued, with the task id the provider returned
QueuedWithTaskId ==
    /\ last'.code = 200
    /\ generations' = Append(generations, generations'[Len(generations')])
    /\ generations'[Len(generations')].status = "queued"
    /\ generations'[Len(generations')].kie_task_id = TaskId

\* C23: with no n8n endpoint configured, a generate_image or
\* generate_video request that passes the balance precheck, and whose
\* submission the provider accepts, persists exactly one Generation row,
\* queued, with the task id the provider returned.
C23_AcceptedIsQueued ==
    [][cfg.n8n = 0 =>
          /\ \A u \in Tgids, model \in ImageModelInputs, template \in {"", "missing"},
                files \in FileInputs :
                 (generate_image(u, model, template, files, TRUE, TaskId, 0)
                      /\ PassedPrecheck(last'))
                     => QueuedWithTaskId
          /\ \A u \in Tgids, model \in VideoModelInputs, files \in FileInputs,
                resolution \in ResolutionInputs, duration \in DurationInputs :
                 (generate_video(u, model, files, TRUE, resolution, duration, TaskId, 0)
                      /\ PassedPrecheck(last'))
                     => QueuedWithTaskId]_vars

(***************************************************************************)
(* The two reconciliation entry points compared: each run from the         *)
(* current store to its end, with no other request in between.             *)
(***************************************************************************)
\* a request run to its end: the record it ends with, the record it
\* committed if it did, and the notification it posted if it did
RECURSIVE ReconcileRun(_, _)
ReconcileRun(run, up) ==
    LET r == run.r
    IN  IF r.pc = "done" THEN run
        ELSE ReconcileRun(
                 [r |-> IF r.op = "webhook" THEN WebhookStep(r, up)
                        ELSE StatusStep(r, TRUE, up),
                  committed |-> IF r.pc \in {"w_commit", "s_commit"} THEN <<r>>
                                ELSE run.committed,
                  posted |-> IF r.pc \in {"w_notify", "s_notify"}
                             THEN <<[referrer_tgid |-> IF r.rload THEN r.ref ELSE NoTgid,
                                     referral_tgid |-> Owner(r.pid),
                                     referral_bonus |-> r.bonus]>>
                             ELSE run.posted], up)

\* what a run leaves persisted and what it sent
Effect(run, p) ==
    [status |-> IF run.committed # <<>> THEN run.committed[1].pstatus
                ELSE payments[p].status,
     balance |-> IF run.committed # <<>> THEN CommitBalance(run.committed[1], Owner(p))
                 ELSE balance,
     posted |-> run.posted]

WebhookEffect(p) ==
    Effect(ReconcileRun([r |-> WebhookRequest(TRUE, "payment.succeeded", p),
                         committed |-> <<>>, posted |-> <<>>], cfg.ref_up), p)

StatusEffect(p) ==
    Effect(ReconcileRun([r |-> StatusRequest(Owner(p), p, TRUE),
                         committed |-> <<>>, posted |-> <<>>], cfg.ref_up), p)

NoEffect(p) == [status |-> payments[p].status, balance |-> balance, posted |-> <<>>]

\* C24: started from the same store with a pending payment the gateway
\* holds as succeeded, yookassa_webhook and get_payment_status leave the
\* same payment status, the same balances of owner and referrer and send
\* the same notification; started from a succeeded payment both change
\* nothing.
C24_SameTransition ==
    \A p \in Rows :
        /\ (payments[p].status = "pending" /\ gateway[p] = "succeeded")
               => WebhookEffect(p) = StatusEffect(p)
        /\ payments[p].status = "succeeded"
               => WebhookEffect(p) = NoEffect(p) /\ StatusEffect(p) = NoEffect(p)

\* both entry points have run to their end on a payment that is pending
\* with the gateway holding it as succeeded
C24_BothRanOnPending ==
    \E p \in Rows :
        /\ payments[p].status = "pending" /\ gateway[p] = "succeeded"
        /\ stage[p] = 1
        /\ last.op = "status" /\ last.pid = p /\ last.resp = "succeeded"

(***************************************************************************)
(* Properties of the generation status.                                    *)
(***************************************************************************)
GenerationStatuses == {"queued", "processing", "done", "failed", "sent_to_n8n"}

\* C25: in every reachable state the status of every Generation row is one
\* of queued, processing, done, failed and sent_to_n8n, whatever status
\* strings the provider's poll responses carry.
C25_StatusInStateMachine ==
    \A g \in 1..Len(generations) : generations[g].status \in GenerationStatuses

(***************************************************************************)
(* Properties of concurrent reconciliations.                               *)
(***************************************************************************)
\* a reconciliation of p, made while the gateway held it as succeeded, has
\* ended and none is in flight
Reconciled(p) == stage[p] = 1 /\ \A s \in Slots : req[s].pid # p

\* the tokens of the reconciled payments of u among the first n rows
RECURSIVE TokensLanded(_, _)
TokensLanded(u, n) ==
    IF n = 0 THEN 0
    ELSE TokensLanded(u, n - 1)
             + (IF Owner(n) = u /\ Reconciled(n) THEN Tokens(n) ELSE 0)

\* C26: when two distinct pending payments of one user are reconciled by
\* concurrent requests, the user's balance ends as the initial balance (0)
\* plus both amounts, under every interleaving.
C26_BothCreditsLand ==
    \A p \in Rows, q \in Rows :
        (p # q /\ Owner(p) = Owner(q) /\ Reconciled(p) /\ Reconciled(q)
             /\ referred_by[Owner(p)] = NoTgid)
            => balance[Owner(p)] = TokensLanded(Owner(p), Len(payments))

(***************************************************************************)
(* Properties of the gateway's authority.                                  *)
(***************************************************************************)
\* C27: a payment becomes succeeded, and its owner is credited, only if the
\* gateway holds the payment as succeeded: while the gateway holds it as
\* pending or canceled no request, a webhook naming it with event
\* payment.succeeded included, changes its status or commits a credit.
C27_OnlyGatewaySucceeded ==
    [][\A p \in Rows :
           (payments'[p].status # payments[p].status \/ credited'[p] # credited[p])
               => gateway[p] = "succeeded"]_vars

\* a payment.succeeded webhook naming a payment the gateway does not hold as
\* succeeded has found the row and has ended; the row is still pending
C27_UnpaidWebhookEnded ==
    /\ last.op = "webhook" /\ last.pid \in Rows /\ last.resp = "error"
    /\ gateway[last.pid] \in {"pending", "canceled"}
    /\ payments[last.pid].status = "pending" /\ credited[last.pid] = 0

(***************************************************************************)
(* Properties of the status check's answer.                                *)
(***************************************************************************)
\* C28: the status that get_payment_status returns is the status persisted
\* for the payment when the request ends; it reports succeeded only if the
\* succeeded status and the credit were committed, also when an exception
\* was raised and swallowed inside the reconciliation block.
C28_ReportsPersistedStatus ==
    [][\A s \in Slots :
           (Ends(s) /\ req[s].op = "status" /\ last'.code = 200 /\ last'.pid \in Rows)
               => /\ last'.resp = payments'[last'.pid].status
                  /\ last'.resp = "succeeded" => credited'[last'.pid] >= 1]_vars

(***************************************************************************)
(* Properties of the committed ledger.                                     *)
(***************************************************************************)
\* a reconciliation request ends at a step other than its session.commit()
EndsWithoutCommit(s) ==
    /\ Ends(s) /\ req[s].op \in {"webhook", "status"}
    /\ req[s].pc \notin {"w_commit", "s_commit"}

\* C29: in every persisted state a payment is succeeded exactly when its
\* tokens have been added to its owner's balance; the status and the credit
\* (and the referrer's bonus) are written by the same commit; a
\* reconciliation request that ends without its commit leaves every payment
\* row and every balance as they were.
C29_StatusAndCreditTogether ==
    [][/\ \A p \in Rows :
              /\ payments[p].status = "succeeded" <=> credited[p] >= 1
              /\ payments'[p].status = "succeeded" <=> credited'[p] >= 1
              /\ payments'[p].status # payments[p].status
                     <=> credited'[p] # credited[p]
              /\ bonused'[p] # bonused[p] => credited'[p] # credited[p]
       /\ \A s \in Slots :
              EndsWithoutCommit(s) => payments' = payments /\ balance' = balance]_vars

\* a status check of a payment the gateway holds as succeeded has ended
\* after the exception raised past the credit made in its session: the row
\* is pending and no balance has changed
C29_FailedStatusCheckEnded ==
    /\ last.op = "status" /\ last.pid \in Rows /\ last.code = 200
    /\ gateway[last.pid] = "succeeded"
    /\ payments[last.pid].status = "pending" /\ credited[last.pid] = 0
    /\ \A u \in Tgids : balance[u] = 0

(***************************************************************************)
(* The payment ledger under fair scheduling.  The gateway SDK is imported  *)
(* and configured.  The event loop runs every handler it has started to    *)
(* its end; the owner keeps asking for the status of each payment; the     *)
(* gateway keeps answering find_one.                                       *)
(***************************************************************************)
LiveInit == PayInit /\ cfg.yoo_import /\ cfg.yoo_creds

\* GET /payments/status/{payment_id} by the owner of row p
StatusCheckByOwner(p) ==
    /\ p \in Rows
    /\ \E s \in Slots : get_payment_status(s, Owner(p), p, TRUE)

\* YooPayment.find_one answers the status check of row p (line 277)
FindOneAnswers(p) ==
    \E s \in Slots :
        /\ req[s].pid = p /\ req[s].pc = "s_find_one"
        /\ get_payment_status_resume(s, TRUE, TRUE)

\* a started handler runs on past its await
HandlerResumes(s) ==
    \/ \E up \in BOOLEAN : yookassa_webhook_resume(s, up)
    \/ \E gwOk \in BOOLEAN, up \in BOOLEAN : get_payment_status_resume(s, gwOk, up)

LiveFairness ==
    /\ \A s \in Slots : WF_vars(HandlerResumes(s))
    /\ \A p \in PayIds : SF_vars(StatusCheckByOwner(p))
    /\ \A p \in PayIds : SF_vars(FindOneAnswers(p))

SpecPayLive == LiveInit /\ [][PayNext]_vars /\ LiveFairness

\* row p is pending and the gateway holds the payment as succeeded
PaidButPending(p) ==
    p \in Rows /\ gateway[p] = "succeeded" /\ payments[p].status = "pending"

\* row p is succeeded and its owner's balance has been credited
PersistedAndCredited(p) ==
    p \in Rows /\ payments[p].status = "succeeded" /\ credited[p] >= 1

\* C30: whenever the gateway holds a pending payment as succeeded and the
\* owner keeps calling get_payment_status for it, the payment is eventually
\* persisted as succeeded and its owner's balance credited.
C30_EventuallyCredited ==
    \A p \in PayIds : PaidButPending(p) ~> PersistedAndCredited(p)
====
